---- MODULE Spec2Model ----
(***************************************************************************)
(* A model of the core of find-best-images:                                *)
(*   - group_similar_images   (imagetools/similarity_tools.py)             *)
(*   - get_unique_path, handle_duplicate, reset_filename_registry,         *)
(*     create_safe_path       (imagetools/file_operations.py)              *)
(*   - find_best_image_hybrid (imagetools/quality_metrics.py)              *)
(*   - create_output_structure, handle_singletons, collect_best_images     *)
(*     (imagetools/directory_structure.py) as main calls them              *)
(*     (find_best_images.py)                                               *)
(* Each component has its own variables and its own specification; a       *)
(* specification leaves the variables of the other components untouched.   *)
(***************************************************************************)
EXTENDS Integers, Sequences, FiniteSets, TLC

VARIABLES
    \* ---- group_similar_images ----
    image_paths,   \* list(embeddings.keys()): the ids in key order
    sim,           \* similarity of every unordered pair of ids (scaled to an integer)
    threshold,     \* the similarity threshold (same scale)
    groups,        \* the working list of groups (a list of sets)
    comparisons,   \* the pairs (i, j) the loop has not processed yet
    gpc,           \* "loop" while the comparison loop runs, "returned" after return
    \* ---- get_unique_path / handle_duplicate ----
    registry,      \* _filename_registry: directory -> set of claimed file names
    files,         \* the disk: directory -> names of the regular files in it
    subdirs,       \* the disk: directory -> names of the directories in it
    returned,      \* the paths get_unique_path returned since the last reset
    last,          \* the last call of get_unique_path: arguments, state met, result
    calls,         \* number of operations so far
    \* ---- create_safe_path ----
    original_path, \* the argument: directory, stem and extension of the path
    max_length,    \* the argument max_length
    safe_path,     \* the path returned by the first call
    metadata_path, \* the sidecar path returned by the first call (<<>> is None)
    safe_again,    \* what a second call, on safe_path, returns: <<path, sidecar>>
    spc,           \* "start", "called" (once), "recalled" (twice)
    \* ---- find_best_image_hybrid ----
    image_group,       \* the argument: the members in iteration order
    primary_metrics,   \* the argument primary_metrics
    secondary_metrics, \* the argument secondary_metrics
    metric_weights,    \* the argument metric_weights: metric -> weight (in tenths)
    date_preference,   \* the argument date_preference
    metric_overrides,  \* the argument metric_overrides: metric -> preference
    candidates,        \* the local list of remaining candidates
    pending,           \* the primary metrics the Stage 1 loop has not reached
    evaluated,         \* every metric evaluation so far: stage, metric, candidates
    best,              \* <<>> before return; <<"None">> or <<member>> after
    qpc,               \* "start", "stage1", "stage1_done", "returned"
    \* ---- main, create_output_structure, collect_best_images ----
    args,          \* the arguments of the run (similar_groups and the options)
    present,       \* the input paths at which a file (or a backlink) lies
    content,       \* the output tree: path of a file -> the image it holds
    results,       \* the list create_output_structure returns
    singletons,    \* the list of singleton images
    work,          \* the locals of the group (or the collect pass) at work
    failed,        \* the transfers that raised: kind, source, group
    earlier,       \* the results of the dry run made before this run, if any
    collected,     \* collected_count of collect_best_images
    rpc,           \* the position of the run
    \* ---- two concurrent callers of get_unique_path ----
    threads,       \* caller -> its position, its arguments, the name it settled on
    serialized,    \* TRUE when the callers hold a lock around the whole call
    \* ---- create_symlink ----
    platform,      \* platform.system()
    outcomes,      \* what os.symlink, os.link and shutil.copy2 do when called,
                   \* and whether the destination exists
    attempts,      \* the primitives called so far, in order
    lpc,           \* "start", "hardlink", "copy", "fallback", "returned", "raised"
    \* ---- main up to the grouping ----
    opts,              \* the options of the run and what it finds at its start
    output_exists,     \* os.path.exists(output_dir)
    cache_file,        \* the pickled cache in output_dir: <<>> or <<dictionary>>
    cached_embeddings, \* the local cached_embeddings
    embeddings,        \* the local embeddings
    grouped,           \* <<>> or <<the ids handed to group_similar_images>>
    parsed_weights,    \* <<>> or <<the dictionary parse_metric_weights returned>>
    exit_code,         \* <<>> while main runs, <<code>> after it returned
    mpc                \* the position of main

gvars == <<image_paths, sim, threshold, groups, comparisons, gpc>>

pvars == <<registry, files, subdirs, returned, last, calls>>

svars == <<original_path, max_length, safe_path, metadata_path, safe_again, spc>>

qvars == <<image_group, primary_metrics, secondary_metrics, metric_weights,
           date_preference, metric_overrides, candidates, pending, evaluated,
           best, qpc>>

rvars == <<args, present, content, results, singletons, work, failed, earlier,
           collected, rpc>>

tvars == <<threads, serialized>>

lvars == <<platform, outcomes, attempts, lpc>>

mvars == <<opts, output_exists, cache_file, cached_embeddings, embeddings, grouped,
           parsed_weights, exit_code, mpc>>

xvars == <<tvars, lvars, mvars>>

vars == <<gvars, pvars, svars, qvars, rvars, xvars>>

\* The variables of the components other than the one at work.
notGroup == <<pvars, svars, qvars, rvars, xvars>>

notPlace == <<gvars, svars, qvars, rvars, xvars>>

notSafe == <<gvars, pvars, qvars, rvars, xvars>>

notSelect == <<gvars, pvars, svars, rvars, xvars>>

\* A run uses the registry and the disk of the placement component.
notRun == <<gvars, svars, qvars, returned, calls, xvars>>

\* Concurrent callers use the registry and the disk of the placement component.
notRace == <<gvars, svars, qvars, rvars, lvars, mvars, files, subdirs, last, calls>>

notLink == <<gvars, pvars, svars, qvars, rvars, tvars, mvars>>

notMain == <<gvars, pvars, svars, qvars, rvars, tvars, lvars>>

(***************************************************************************)
(* Helpers on sequences and sets.                                          *)
(***************************************************************************)
Range(s) == {s[k] : k \in 1..Len(s)}

RemoveAt(s, k) == [x \in 1..(Len(s) - 1) |-> IF x < k THEN s[x] ELSE s[x + 1]]

Perms(S) == {p \in [1..Cardinality(S) -> S] : \A a \in S : \E k \in DOMAIN p : p[k] = a}

Min(S) == CHOOSE x \in S : \A y \in S : x <= y

Max(S) == CHOOSE x \in S : \A y \in S : x >= y

(***************************************************************************)
(* group_similar_images                                                    *)
(***************************************************************************)
MaxImages == 3

\* Similarities and thresholds on an integer scale: with SimValues = {1, 2}
\* and thresholds 1..3 a pair can be below, equal to and above the threshold.
SimValues == {1, 2}

Thresholds == {1, 2, 3}

PairsOf(S) == {p \in {{a, b} : a \in S, b \in S} : Cardinality(p) = 2}

\* comparisons = [(i, j) for i in range(n) for j in range(i+1, n)], 1-based.
RECURSIVE PairList(_, _, _)
PairList(i, j, n) ==
    IF i >= n THEN <<>>
    ELSE IF j > n THEN PairList(i + 1, i + 2, n)
    ELSE <<<<i, j>>>> \o PairList(i, j + 1, n)

Comparisons(n) == PairList(1, 2, n)

\* cosine_similarity(embeddings[path_i], embeddings[path_j])
Similarity(s, a, b) == s[{a, b}]

\* next(g for g in groups if path in g): the index of the first group holding path
GroupIndexOf(gs, path) == Min({k \in 1..Len(gs) : path \in gs[k]})

\* groups.remove(group_j): drop the first element EQUAL to group_j
RemoveFirstEqual(gs, g) ==
    IF \E k \in 1..Len(gs) : gs[k] = g
    THEN RemoveAt(gs, Min({k \in 1..Len(gs) : gs[k] = g}))
    ELSE gs

\* A merge that forgets groups.remove(group_j).
MergeGroupsKeepBoth(gs, gi, gj) == [gs EXCEPT ![gi] = gs[gi] \cup gs[gj]]

\* group_i.update(group_j); groups.remove(group_j)
MergeGroups(gs, gi, gj) ==
    RemoveFirstEqual([gs EXCEPT ![gi] = gs[gi] \cup gs[gj]], gs[gj])

\* sim > threshold instead of sim >= threshold.
IsSimilarStrict(s, t, a, b) == Similarity(s, a, b) > t

\* if sim >= threshold
IsSimilar(s, t, a, b) == Similarity(s, a, b) >= t

\* A body that moves only path_j into the group of path_i.
MergePairMoveOne(gs, paths, s, t, pr) ==
    LET path_i == paths[pr[1]]
        path_j == paths[pr[2]]
        gi == GroupIndexOf(gs, path_i)
        gj == GroupIndexOf(gs, path_j)
    IN  IF IsSimilar(s, t, path_i, path_j) /\ gs[gi] # gs[gj]
        THEN LET moved == [gs EXCEPT ![gi] = gs[gi] \cup {path_j},
                                     ![gj] = gs[gj] \ {path_j}]
             IN  IF moved[gj] = {} THEN RemoveAt(moved, gj) ELSE moved
        ELSE gs

\* The body of the comparison loop for the pair pr = (i, j).
MergePair(gs, paths, s, t, pr) ==
    LET path_i == paths[pr[1]]
        path_j == paths[pr[2]]
    IN  IF path_i \notin Range(paths) \/ path_j \notin Range(paths)
        THEN gs                       \* embeddings missing: continue
        ELSE IF IsSimilar(s, t, path_i, path_j)
        THEN LET gi == GroupIndexOf(gs, path_i)
                 gj == GroupIndexOf(gs, path_j)
             IN  IF gs[gi] # gs[gj] THEN MergeGroups(gs, gi, gj) ELSE gs
        ELSE gs

\* The whole loop over a list of pairs, in list order.
RECURSIVE RunMerge(_, _, _, _, _)
RunMerge(gs, paths, s, t, comps) ==
    IF comps = <<>> THEN gs
    ELSE RunMerge(MergePair(gs, paths, s, t, Head(comps)), paths, s, t, Tail(comps))

\* groups = [{path} for path in image_paths]
InitialGroups(paths) == [k \in 1..Len(paths) |-> {paths[k]}]

GroupInit ==
    /\ \E n \in 0..MaxImages :
         /\ image_paths \in Perms(1..n)
         /\ sim \in [PairsOf(1..n) -> SimValues]
         /\ comparisons = Comparisons(n)
    /\ threshold \in Thresholds
    /\ groups = InitialGroups(image_paths)
    /\ gpc = "loop"

\* One iteration of "for i, j in iterator", taking the k-th remaining pair.
MergeStepAt(k) ==
    /\ gpc = "loop"
    /\ k \in 1..Len(comparisons)
    /\ groups' = MergePair(groups, image_paths, sim, threshold, comparisons[k])
    /\ comparisons' = RemoveAt(comparisons, k)
    /\ UNCHANGED <<image_paths, sim, threshold, gpc>>
    /\ UNCHANGED notGroup

\* The loop as written: pairs in list order.
MergeStep == MergeStepAt(1)

\* The loop over a shuffled pair list: any remaining pair comes next.
ShuffledMergeStep == \E k \in 1..Len(comparisons) : MergeStepAt(k)

\* return groups
GroupReturn ==
    /\ gpc = "loop"
    /\ comparisons = <<>>
    /\ gpc' = "returned"
    /\ UNCHANGED <<image_paths, sim, threshold, groups, comparisons>>
    /\ UNCHANGED notGroup

GroupNext == MergeStep \/ GroupReturn

ShuffleNext == ShuffledMergeStep \/ GroupReturn

(***************************************************************************)
(* Claims on group_similar_images                                          *)
(***************************************************************************)
Ids == Range(image_paths)

\* C1: at every point of the comparison loop and at return, the groups are
\* non-empty, pairwise disjoint, and their union is the key set of embeddings.
C1_GroupsPartition ==
    /\ \A k \in 1..Len(groups) : groups[k] # {}
    /\ \A k, l \in 1..Len(groups) : k # l => groups[k] \cap groups[l] = {}
    /\ UNION Range(groups) = Ids

\* A merge has happened and more than one group is left.
C1_Witness ==
    /\ gpc = "returned"
    /\ Len(groups) = 2
    /\ Len(image_paths) = 3

\* The ids joined to the ids of S by a chain of pairs with similarity >= threshold.
RECURSIVE Chained(_)
Chained(S) ==
    LET T == S \cup {b \in Ids : \E a \in S : a # b /\ sim[{a, b}] >= threshold}
    IN  IF T = S THEN S ELSE Chained(T)

\* C2: single-link clustering: two ids are in the same returned group iff a
\* chain of pairs with similarity >= threshold (inclusive) joins them.
C2_SingleLink ==
    gpc = "returned" =>
        \A a, b \in Ids :
            (\E k \in 1..Len(groups) : a \in groups[k] /\ b \in groups[k])
                <=> b \in Chained({a})

\* sim(A,B) = t, sim(B,C) = t, sim(A,C) < t: one group {A, B, C}.
C2_Witness ==
    /\ gpc = "returned"
    /\ Len(image_paths) = 3
    /\ threshold = 2
    /\ sim[{1, 2}] = 2 /\ sim[{2, 3}] = 2 /\ sim[{1, 3}] = 1
    /\ Len(groups) = 1
    /\ groups[1] = {1, 2, 3}

\* The partition the loop as written returns for the ids in ascending order.
CanonicalPartition ==
    LET n == Len(image_paths)
        ident == [k \in 1..n |-> k]
    IN  Range(RunMerge(InitialGroups(ident), ident, sim, threshold, Comparisons(n)))

\* C3: whatever the order in which the pairs have been taken so far (and
\* whatever the order of the id list), the loop ends in the same partition.
C3_OrderIndependent ==
    Range(RunMerge(groups, image_paths, sim, threshold, comparisons))
        = CanonicalPartition

\* Pairs were taken out of list order: the first pair of the list is still
\* to come although a later pair has already merged two groups.
C3_Witness ==
    /\ gpc = "loop"
    /\ Len(image_paths) = 3
    /\ image_paths # <<1, 2, 3>>
    /\ comparisons # <<>>
    /\ Head(comparisons) = <<1, 2>>
    /\ Len(groups) = 2
    /\ sim[{image_paths[1], image_paths[2]}] >= threshold

(***************************************************************************)
(* get_unique_path, handle_duplicate, reset_filename_registry              *)
(*                                                                         *)
(* A path is a directory and a file name; a file name is a stem and an     *)
(* extension (os.path.split, os.path.splitext).  A directory that does not *)
(* exist lists no entries, so it is modelled as a directory without        *)
(* entries.                                                                *)
(***************************************************************************)
MaxCalls == 2

DestDirs == {"out", "alt"}

\* The source files: full path, name of the parent directory, stem, extension.
Sources ==
    { [path |-> "in/dirA/a.jpg",  parent |-> "dirA", stem |-> "a", ext |-> ".jpg"],
      [path |-> "in/dirB/a.jpg",  parent |-> "dirB", stem |-> "a", ext |-> ".jpg"],
      [path |-> "in2/dirA/a.jpg", parent |-> "dirA", stem |-> "a", ext |-> ".jpg"] }

\* source_path=None
NoSource == [path |-> "", parent |-> "", stem |-> "a", ext |-> ".jpg"]

Strategies == {"hierarchical", "parent_only", "hash", "numeric"}

\* What may lie in the directory "out" before the run.
PreFiles == {"a.jpg", "a_dirA.jpg", "a_col_1.jpg"}

PreSubdirs == {"a_3dec1a36.jpg"}

EmptyRegistry == [d \in {} |-> {}]

NoCall ==
    [op |-> "none", dir |-> "", src |-> NoSource, strategy |-> "", name |-> "",
     step |-> "", counter |-> 0, seeded |-> FALSE, listing |-> {}, claimed |-> {},
     ondisk |-> {}, placed |-> FALSE]

\* hashlib.md5(source_path.encode()).hexdigest()[:8]
PathHash(src) ==
    CASE src.path = "in/dirA/a.jpg"  -> "3dec1a36"
      [] src.path = "in/dirB/a.jpg"  -> "2034fd0e"
      [] src.path = "in2/dirA/a.jpg" -> "e63a0a38"
      [] OTHER -> "d41d8cd9"

\* os.path.basename(os.path.dirname(source_path))
ParentDirName(src) == src.parent

\* os.path.exists(os.path.join(dest_dir, fname))
PathExists(d, fname) == fname \in files[d] \cup subdirs[d]

\* A first touch that does not list the directory.
SeedRegistryEmpty(reg, d) ==
    IF d \in DOMAIN reg THEN reg
    ELSE [x \in DOMAIN reg \cup {d} |-> IF x = d THEN {} ELSE reg[x]]

\* if dest_dir not in _filename_registry: seed it with the files of dest_dir
SeedRegistry(reg, d) ==
    IF d \in DOMAIN reg THEN reg
    ELSE [x \in DOMAIN reg \cup {d} |-> IF x = d THEN files[d] ELSE reg[x]]

\* fname not in _filename_registry[dest_dir] and not os.path.exists(path)
IsFree(reg, d, fname) == fname \notin reg[d] /\ ~PathExists(d, fname)

\* f"{name}_{parent_dir}{ext}"
ParentName(name, ext, src) == name \o "_" \o ParentDirName(src) \o ext

\* f"{name}_{path_hash}{ext}"
HashName(name, ext, src) == name \o "_" \o PathHash(src) \o ext

\* f"{name}_col_{counter}{ext}"
NumericName(name, ext, counter) == name \o "_col_" \o ToString(counter) \o ext

\* A loop that starts counting at 2.
FirstFreeCounterFromTwo(reg, d, name, ext) ==
    Min({c \in 2..(Cardinality(reg[d] \cup files[d] \cup subdirs[d]) + 2) :
            IsFree(reg, d, NumericName(name, ext, c))})

\* counter = 1; while True: ... counter += 1 -- the first counter whose name is
\* free; one of the first (number of taken names + 1) counters is.
FirstFreeCounter(reg, d, name, ext) ==
    Min({c \in 1..(Cardinality(reg[d] \cup files[d] \cup subdirs[d]) + 1) :
            IsFree(reg, d, NumericName(name, ext, c))})

\* A resolution that tries the hash suffix before the parent suffix.
ResolveHashFirst(reg, d, name, ext, src, strategy) ==
    LET hasSource == src.path # ""
        counter == FirstFreeCounter(reg, d, name, ext)
        numeric == [name |-> NumericName(name, ext, counter), step |-> "numeric",
                    counter |-> counter]
    IN  IF IsFree(reg, d, name \o ext)
        THEN [name |-> name \o ext, step |-> "desired", counter |-> 0]
        ELSE IF strategy \in {"hierarchical", "hash"} /\ hasSource
                /\ IsFree(reg, d, HashName(name, ext, src))
        THEN [name |-> HashName(name, ext, src), step |-> "hash", counter |-> 0]
        ELSE IF strategy \in {"hierarchical", "parent_only"} /\ hasSource
                /\ IsFree(reg, d, ParentName(name, ext, src))
        THEN [name |-> ParentName(name, ext, src), step |-> "parent", counter |-> 0]
        ELSE numeric

\* The name get_unique_path settles on, given the seeded registry reg.
Resolve(reg, d, name, ext, src, strategy) ==
    LET hasSource == src.path # ""
        counter == FirstFreeCounter(reg, d, name, ext)
        numeric == [name |-> NumericName(name, ext, counter), step |-> "numeric",
                    counter |-> counter]
    IN  IF IsFree(reg, d, name \o ext)
        THEN [name |-> name \o ext, step |-> "desired", counter |-> 0]
        ELSE IF strategy \in {"hierarchical", "parent_only"} /\ hasSource
                /\ IsFree(reg, d, ParentName(name, ext, src))
        THEN [name |-> ParentName(name, ext, src), step |-> "parent", counter |-> 0]
        ELSE IF strategy = "parent_only"
        THEN numeric
        ELSE IF strategy \in {"hierarchical", "hash"} /\ hasSource
                /\ IsFree(reg, d, HashName(name, ext, src))
        THEN [name |-> HashName(name, ext, src), step |-> "hash", counter |-> 0]
        ELSE numeric

\* A reset that keeps the entries.
RegistryKept == registry

\* reset_filename_registry(): _filename_registry = {}
RegistryAfterReset == EmptyRegistry

\* A claim that is forgotten: the registry is returned as it was seeded.
ClaimNothing(reg, d, fname) == reg

\* _filename_registry[dest_dir].add(fname)
Claim(reg, d, fname) == [reg EXCEPT ![d] = @ \cup {fname}]

\* get_unique_path(dest_path, source_path, collision_strategy) with
\* dest_path = d/name+ext: the new registry and the record of the call.
GetUniquePathResult(d, name, ext, src, strategy, placed) ==
    LET reg == SeedRegistry(registry, d)
        r == Resolve(reg, d, name, ext, src, strategy)
    IN  [reg |-> Claim(reg, d, r.name),
         call |-> [op |-> "get_unique_path", dir |-> d, src |-> src,
                   strategy |-> strategy, name |-> r.name, step |-> r.step,
                   counter |-> r.counter,
                   seeded |-> d \notin DOMAIN registry,  \* first touch of d
                   listing |-> files[d],          \* regular files of d at the call
                   claimed |-> reg[d],            \* registry entry met (seeded)
                   ondisk |-> files[d] \cup subdirs[d],
                   placed |-> placed]]

PlaceInit ==
    /\ registry = EmptyRegistry
    /\ \E pre \in SUBSET PreFiles :
         files = [d \in DestDirs |-> IF d = "out" THEN pre ELSE {}]
    /\ \E pre \in SUBSET PreSubdirs :
         subdirs = [d \in DestDirs |-> IF d = "out" THEN pre ELSE {}]
    /\ returned = <<>>
    /\ last = NoCall
    /\ calls = 0

\* The placement component when another component is at work.
PlaceIdle ==
    /\ registry = EmptyRegistry
    /\ files = [d \in DestDirs |-> {}]
    /\ subdirs = [d \in DestDirs |-> {}]
    /\ returned = <<>>
    /\ last = NoCall
    /\ calls = 0

\* A call of get_unique_path on its own (nothing is transferred).
GetUniquePath ==
    /\ calls < MaxCalls
    /\ \E d \in DestDirs, src \in Sources \cup {NoSource}, strategy \in Strategies :
         LET g == GetUniquePathResult(d, src.stem, src.ext, src, strategy, FALSE)
         IN  /\ registry' = g.reg
             /\ returned' = Append(returned, <<d, g.call.name>>)
             /\ last' = g.call
    /\ calls' = calls + 1
    /\ UNCHANGED <<files, subdirs>>
    /\ UNCHANGED notPlace

\* handle_duplicate(source_path, dest_path, mode, create_backlink, strategy):
\* os.makedirs of the directory, get_unique_path, then the transfer by copy,
\* symlink or move, which either puts a file at the unique path (ok) or raises
\* (the name stays claimed, no file appears).
HandleDuplicate ==
    /\ calls < MaxCalls
    /\ \E d \in DestDirs, src \in Sources, strategy \in Strategies, ok \in BOOLEAN :
         LET g == GetUniquePathResult(d, src.stem, src.ext, src, strategy, ok)
         IN  /\ registry' = g.reg
             /\ returned' = Append(returned, <<d, g.call.name>>)
             /\ last' = g.call
             /\ files' = IF ok THEN [files EXCEPT ![d] = @ \cup {g.call.name}]
                         ELSE files
    /\ calls' = calls + 1
    /\ UNCHANGED subdirs
    /\ UNCHANGED notPlace

\* reset_filename_registry()
ResetFilenameRegistry ==
    /\ calls < MaxCalls
    /\ registry' = RegistryAfterReset
    /\ returned' = <<>>
    /\ last' = NoCall
    /\ calls' = calls + 1
    /\ UNCHANGED <<files, subdirs>>
    /\ UNCHANGED notPlace

PlaceNext == GetUniquePath \/ HandleDuplicate \/ ResetFilenameRegistry

(***************************************************************************)
(* Claims on get_unique_path and handle_duplicate                          *)
(***************************************************************************)
IsCall == last.op = "get_unique_path"

\* The desired file name of the last call and the names taken when it was made.
Desired == last.src.stem \o last.src.ext

Taken == last.claimed \cup last.ondisk

\* C4: between two resets no two calls of get_unique_path return the same
\* path, and the path returned did not exist on disk at the call, so the
\* transfer of handle_duplicate writes to a path nothing occupied.
C4_UniqueNoOverwrite ==
    /\ \A i, j \in 1..Len(returned) : i # j => returned[i] # returned[j]
    /\ IsCall => last.name \notin last.ondisk

\* Two calls for the same directory, the second dodged a name and placed a file.
C4_Witness ==
    /\ Len(returned) = 2
    /\ returned[1][1] = returned[2][1]
    /\ IsCall /\ last.placed /\ last.step # "desired"

\* The k-th candidate of the hierarchical strategy.
HierarchicalCandidate(k) ==
    IF k = 1 THEN last.src.stem \o "_" \o last.src.parent \o last.src.ext
    ELSE IF k = 2 THEN last.src.stem \o "_" \o PathHash(last.src) \o last.src.ext
    ELSE last.src.stem \o "_col_" \o ToString(k - 2) \o last.src.ext

\* C5: hierarchical, source given, desired name taken: the name returned is
\* the first of name_parent, name_hash, name_col_1, name_col_2, ... that is
\* neither claimed nor on disk.
C5_HierarchicalOrder ==
    (IsCall /\ last.strategy = "hierarchical" /\ last.src # NoSource
            /\ Desired \in Taken)
        => \E k \in 1..(Cardinality(Taken) + 3) :
              /\ last.name = HierarchicalCandidate(k)
              /\ HierarchicalCandidate(k) \notin Taken
              /\ \A m \in 1..(k - 1) : HierarchicalCandidate(m) \in Taken

\* a.jpg from dirA and then a.jpg from dirB into the empty directory "alt".
C5_Witness ==
    /\ returned = << <<"alt", "a.jpg">>, <<"alt", "a_dirB.jpg">> >>
    /\ IsCall /\ last.strategy = "hierarchical" /\ last.step = "parent"
    /\ last.src.path = "in/dirB/a.jpg"

\* The numeric suffix after the parent-suffixed and the hash-suffixed names
\* were both taken.
C5_WitnessNumeric ==
    /\ IsCall /\ last.strategy = "hierarchical" /\ last.step = "numeric"
    /\ last.src.path = "in/dirA/a.jpg"
    /\ {"a.jpg", "a_dirA.jpg", "a_3dec1a36.jpg", "a_col_1.jpg"} \subseteq Taken
    /\ last.name = "a_col_2.jpg"

\* C6: a desired name that is neither claimed nor on disk is returned
\* unchanged under every strategy and is claimed; a directory touched for the
\* first time has its entry seeded with the regular files in it.
C6_FreeNameKept ==
    IsCall =>
        /\ (Desired \notin last.claimed /\ Desired \notin last.ondisk)
              => (last.name = Desired /\ Desired \in registry[last.dir])
        /\ last.seeded => last.claimed = last.listing
        /\ registry[last.dir] = last.claimed \cup {last.name}

\* First touch of a directory that holds a file and a subdirectory; the desired
\* name is free.
C6_Witness ==
    /\ IsCall /\ last.seeded /\ last.dir = "out"
    /\ last.listing = {"a_dirA.jpg"}
    /\ last.ondisk = {"a_dirA.jpg", "a_3dec1a36.jpg"}
    /\ last.strategy = "numeric"
    /\ last.name = "a.jpg"

C30_NoRollback ==
    /\ \A k \in 1..Len(returned) : returned[k][2] \in registry[returned[k][1]]
    /\ (IsCall /\ Len(returned) = 2 /\ returned[1] = <<last.dir, Desired>>)
           => last.name # Desired

\* The first transfer raised after "a.jpg" was claimed; the second call for
\* "a.jpg" in the same directory is given a suffixed name although no
\* "a.jpg" lies there.
C30_Witness ==
    /\ IsCall /\ Len(returned) = 2
    /\ Desired = "a.jpg"
    /\ returned[1] = <<last.dir, "a.jpg">>
    /\ "a.jpg" \notin files[last.dir]
    /\ last.step # "desired"
    /\ last.name \notin {"a.jpg"} \cup last.ondisk

(***************************************************************************)
(* Two concurrent callers of get_unique_path                               *)
(*                                                                         *)
(* Each caller asks for the path out/a.jpg.  A call is three steps: the    *)
(* first touch of the directory, the checks that settle on a name that is  *)
(* neither claimed nor on disk, and the add that claims it.  Another       *)
(* caller may run between the steps unless the callers are serialized.     *)
(***************************************************************************)
Threads == {1, 2}

RaceDir == "out"

NoThread == [pc |-> "idle", src |-> NoSource, strategy |-> "", name |-> ""]

RaceInit ==
    /\ PlaceInit
    /\ threads \in [Threads -> {[pc |-> "seed", src |-> src, strategy |-> strategy,
                                 name |-> ""] : src \in Sources, strategy \in Strategies}]
    /\ serialized \in BOOLEAN

\* The callers when another component is at work.
RaceIdle ==
    /\ threads = [t \in Threads |-> NoThread]
    /\ serialized = FALSE

\* A caller is inside get_unique_path.
InCall(t) == threads[t].pc \in {"check", "claim"}

\* if dest_dir not in _filename_registry: seed it.  A serialized caller enters
\* only when no other caller is inside.
Seed(t) ==
    /\ threads[t].pc = "seed"
    /\ serialized => \A u \in Threads \ {t} : ~InCall(u)
    /\ registry' = SeedRegistry(registry, RaceDir)
    /\ threads' = [threads EXCEPT ![t].pc = "check"]
    /\ UNCHANGED <<returned, serialized>>
    /\ UNCHANGED notRace

\* The tests "not in _filename_registry[dest_dir] and not os.path.exists(...)"
\* up to the first that passes.
Check(t) ==
    /\ threads[t].pc = "check"
    /\ threads' = [threads EXCEPT
                     ![t].name = Resolve(registry, RaceDir, threads[t].src.stem,
                                         threads[t].src.ext, threads[t].src,
                                         threads[t].strategy).name,
                     ![t].pc = "claim"]
    /\ UNCHANGED <<registry, returned, serialized>>
    /\ UNCHANGED notRace

\* _filename_registry[dest_dir].add(...); return the path
ClaimName(t) ==
    /\ threads[t].pc = "claim"
    /\ registry' = Claim(registry, RaceDir, threads[t].name)
    /\ returned' = Append(returned, <<RaceDir, threads[t].name>>)
    /\ threads' = [threads EXCEPT ![t].pc = "done"]
    /\ UNCHANGED serialized
    /\ UNCHANGED notRace

RaceNext == \E t \in Threads : Seed(t) \/ Check(t) \/ ClaimName(t)

\* C25: get_unique_path is not atomic: two callers for the same desired path
\* are returned the same path only when their calls are not serialized (both
\* passed the check before either claimed the name); serialized calls return
\* different paths.
C25_SameOnlyIfConcurrent ==
    ((\A t \in Threads : threads[t].pc = "done") /\ threads[1].name = threads[2].name)
        => ~serialized

\* Both callers, not serialized, were returned out/a.jpg, which was free.
C25_Witness ==
    /\ ~serialized
    /\ \A t \in Threads : threads[t].pc = "done" /\ threads[t].name = "a.jpg"
    /\ returned = <<<<RaceDir, "a.jpg">>, <<RaceDir, "a.jpg">>>>
    /\ "a.jpg" \notin files[RaceDir]

(***************************************************************************)
(* create_symlink                                                          *)
(***************************************************************************)
Platforms == {"Windows", "Linux"}

\* What a link primitive does: it succeeds, raises OSError, or raises an
\* exception of another class.
LinkOutcomes == {"ok", "OSError", "other"}

CopyOutcomes == {"ok", "raises"}

LinkInit ==
    /\ platform \in Platforms
    /\ outcomes \in [symlink : LinkOutcomes, link : LinkOutcomes, copy : CopyOutcomes,
                     exists : BOOLEAN]
    /\ attempts = <<>>
    /\ lpc = "start"

\* The component when another component is at work.
LinkIdle ==
    /\ platform = ""
    /\ outcomes = [symlink |-> "ok", link |-> "ok", copy |-> "ok", exists |-> FALSE]
    /\ attempts = <<>>
    /\ lpc = "idle"

\* os.makedirs; os.remove of an existing destination; os.symlink.  On Windows
\* an OSError leads to the hard link; any other failure to the outer except.
TrySymlink ==
    /\ lpc = "start"
    /\ attempts' = (IF outcomes.exists THEN <<"remove">> ELSE <<>>) \o <<"symlink">>
    /\ lpc' = IF outcomes.symlink = "ok" THEN "returned"
              ELSE IF platform = "Windows" /\ outcomes.symlink = "OSError" THEN "hardlink"
              ELSE "fallback"
    /\ UNCHANGED <<platform, outcomes>>
    /\ UNCHANGED notLink

\* os.link (Windows only); an OSError leads to the copy.
TryHardlink ==
    /\ lpc = "hardlink"
    /\ attempts' = Append(attempts, "hardlink")
    /\ lpc' = IF outcomes.link = "ok" THEN "returned"
              ELSE IF outcomes.link = "OSError" THEN "copy"
              ELSE "fallback"
    /\ UNCHANGED <<platform, outcomes>>
    /\ UNCHANGED notLink

\* shutil.copy2 after the hard link failed (Windows only)
TryCopy ==
    /\ lpc = "copy"
    /\ attempts' = Append(attempts, "copy")
    /\ lpc' = IF outcomes.copy = "ok" THEN "returned" ELSE "fallback"
    /\ UNCHANGED <<platform, outcomes>>
    /\ UNCHANGED notLink

\* except Exception: shutil.copy2; if that raises too, raise
FallbackCopy ==
    /\ lpc = "fallback"
    /\ attempts' = Append(attempts, "copy")
    /\ lpc' = IF outcomes.copy = "ok" THEN "returned" ELSE "raised"
    /\ UNCHANGED <<platform, outcomes>>
    /\ UNCHANGED notLink

LinkNext == TrySymlink \/ TryHardlink \/ TryCopy \/ FallbackCopy

\* The primitive was called before the k-th call.
TriedBefore(primitive, k) == \E i \in 1..(k - 1) : attempts[i] = primitive

\* C24: the primitives are tried in the order symlink, hardlink, copy on
\* every platform: a hard link is tried only after the symlink, a copy only
\* after both the symlink and the hard link were tried and failed, and an
\* error is raised only when the copy failed too.
C24_FallbackChain ==
    /\ \A k \in DOMAIN attempts :
          /\ attempts[k] = "hardlink" => TriedBefore("symlink", k)
          /\ attempts[k] = "copy" =>
                TriedBefore("symlink", k) /\ TriedBefore("hardlink", k)
    /\ lpc = "raised" => attempts # <<>> /\ attempts[Len(attempts)] = "copy"

(***************************************************************************)
(* create_safe_path                                                        *)
(*                                                                         *)
(* A string is a sequence of characters.  A path is the directory part     *)
(* (without the trailing separator, <<>> for none), the stem and the       *)
(* extension of the file name, as os.path.split and os.path.splitext give  *)
(* them; os.path.join puts one separator after a non-empty directory.      *)
(* A digit of an md5 digest is a symbol that names the hashed string and   *)
(* the position, so different strings have different digests.              *)
(***************************************************************************)
MaxDirLen == 14

MaxNameLen == 18

\* The values of max_length tried (MAX_PATH_LENGTH is 250; the lengths of the
\* model are scaled down, the constants 3, 10 and 8 of the code are not).
MaxLengths == {20, 24}

Extensions == {<<>>, <<".", "j", "p", "g">>}

MinKeep == 3

Margin == 10

HashLen == 8

Repeat(c, n) == [k \in 1..n |-> c]

\* len(original_path)
PathLen(p) ==
    (IF p.dir = <<>> THEN 0 ELSE Len(p.dir) + 1) + Len(p.name) + Len(p.ext)

\* s[:k]
Prefix(s, k) == SubSeq(s, 1, IF k < Len(s) THEN k ELSE Len(s))

\* hashlib.md5(name.encode()).hexdigest()[:8]
Md5Hex8(name) == [k \in 1..HashLen |-> [md5 |-> name, digit |-> k]]

\* name[:max(3, len(name)-excess-10)] + "_" + md5(name)[:8]
ShortenedName(name, excess) ==
    Prefix(name, Max({MinKeep, Len(name) - excess - Margin})) \o <<"_">> \o Md5Hex8(name)

\* create_safe_path(original_path, max_length, metadata): <<safe path, sidecar>>,
\* the sidecar <<>> for None.
CreateSafePath(p, maxlen, metadata) ==
    IF PathLen(p) <= maxlen
    THEN <<p, <<>>>>
    ELSE LET excess == PathLen(p) - maxlen
             shortened_name == ShortenedName(p.name, excess)
         IN  << [dir |-> p.dir, name |-> shortened_name, ext |-> p.ext],
                IF metadata
                THEN << [dir |-> p.dir, name |-> shortened_name,
                         ext |-> <<".", "t", "x", "t">>] >>
                ELSE <<>> >>

NoPath == [dir |-> <<>>, name |-> <<>>, ext |-> <<>>]

SafeInit ==
    /\ \E d \in 0..MaxDirLen, n \in 1..MaxNameLen, e \in Extensions :
         original_path = [dir |-> Repeat("d", d), name |-> Repeat("n", n), ext |-> e]
    /\ max_length \in MaxLengths
    /\ safe_path = NoPath
    /\ metadata_path = <<>>
    /\ safe_again = <<>>
    /\ spc = "start"

\* The component when another component is at work.
SafeIdle ==
    /\ original_path = NoPath
    /\ max_length = 0
    /\ safe_path = NoPath
    /\ metadata_path = <<>>
    /\ safe_again = <<>>
    /\ spc = "idle"

\* safe_path, metadata_path = create_safe_path(original_path, max_length)
CallCreateSafePath ==
    /\ spc = "start"
    /\ LET r == CreateSafePath(original_path, max_length, TRUE)
       IN  /\ safe_path' = r[1]
           /\ metadata_path' = r[2]
    /\ spc' = "called"
    /\ UNCHANGED <<original_path, max_length, safe_again>>
    /\ UNCHANGED notSafe

\* create_safe_path(safe_path, max_length): the guard run on its own output
RecallCreateSafePath ==
    /\ spc = "called"
    /\ safe_again' = CreateSafePath(safe_path, max_length, TRUE)
    /\ spc' = "recalled"
    /\ UNCHANGED <<original_path, max_length, safe_path, metadata_path>>
    /\ UNCHANGED notSafe

SafeNext == CallCreateSafePath \/ RecallCreateSafePath

(***************************************************************************)
(* Claims on create_safe_path                                              *)
(***************************************************************************)
\* C8: a path longer than max_length comes back with length <= max_length,
\* together with a sidecar path in the same directory.
C8_WithinMaxLength ==
    (spc # "start" /\ PathLen(original_path) > max_length)
        => /\ PathLen(safe_path) <= max_length
           /\ metadata_path # <<>>
           /\ metadata_path[1].dir = original_path.dir

\* C9: create_safe_path is idempotent: run on its own output it returns that
\* output and no sidecar.
C9_Idempotent ==
    spc = "recalled" => safe_again = <<safe_path, <<>>>>

(***************************************************************************)
(* get_image_quality, find_best_image_hybrid                               *)
(*                                                                         *)
(* An image file is known by what the reads of get_image_quality find:     *)
(* whether os.stat succeeds (size, times), whether PIL opens it (width,    *)
(* height), and its extension.  Weights are in tenths (1.0 is 10).         *)
(***************************************************************************)
MaxGroup == 3

Images == {"X", "Y", "Z", "W", "X2", "Bad", "Gone"}

\* X and Y are the two images of test_primary_metrics; Z and W tie with X on
\* min(width, height); X2 equals X in every metric; Bad exists but PIL cannot
\* open it; Gone cannot be read at all.
ImageFacts(img) ==
    CASE img = "X"   -> [stat |-> TRUE, opens |-> TRUE, width |-> 800, height |-> 600,
                         size |-> 100, mtime |-> 2, ctime |-> 2, ext |-> ".jpg"]
      [] img = "Y"   -> [stat |-> TRUE, opens |-> TRUE, width |-> 1920, height |-> 1080,
                         size |-> 50, mtime |-> 1, ctime |-> 1, ext |-> ".png"]
      [] img = "Z"   -> [stat |-> TRUE, opens |-> TRUE, width |-> 600, height |-> 800,
                         size |-> 200, mtime |-> 3, ctime |-> 1, ext |-> ".jpg"]
      [] img = "W"   -> [stat |-> TRUE, opens |-> TRUE, width |-> 600, height |-> 900,
                         size |-> 100, mtime |-> 2, ctime |-> 2, ext |-> ".png"]
      [] img = "X2"  -> [stat |-> TRUE, opens |-> TRUE, width |-> 800, height |-> 600,
                         size |-> 100, mtime |-> 2, ctime |-> 2, ext |-> ".jpg"]
      [] img = "Bad" -> [stat |-> TRUE, opens |-> FALSE, width |-> 0, height |-> 0,
                         size |-> 300, mtime |-> 4, ctime |-> 4, ext |-> ".jpg"]
      \* the images of a run, known by their paths
      [] img \in {"in/d1/a.jpg", "in/d2/a.jpg"} ->
                        [stat |-> TRUE, opens |-> TRUE, width |-> 800, height |-> 600,
                         size |-> 100, mtime |-> 2, ctime |-> 2, ext |-> ".jpg"]
      [] img \in {"in/d1/b.jpg", "in/d2/c.jpg"} ->
                        [stat |-> TRUE, opens |-> TRUE, width |-> 400, height |-> 300,
                         size |-> 50, mtime |-> 1, ctime |-> 1, ext |-> ".jpg"]
      [] img = "in/d1/s.jpg" ->
                        [stat |-> TRUE, opens |-> TRUE, width |-> 100, height |-> 100,
                         size |-> 10, mtime |-> 1, ctime |-> 1, ext |-> ".jpg"]
      [] OTHER       -> [stat |-> FALSE, opens |-> FALSE, width |-> 0, height |-> 0,
                         size |-> 0, mtime |-> 0, ctime |-> 0, ext |-> ".gif"]

\* FILE_FORMAT_QUALITY.get(ext, 0)
FormatQuality(ext) ==
    CASE ext = ".png" -> 100
      [] ext = ".jpg" -> 75
      [] ext = ".gif" -> 60
      [] OTHER -> 0

\* DEFAULT_METRIC_WEIGHTS, in tenths
DefaultMetricWeights ==
    [m \in {"dimensions", "resolution", "format_quality", "filesize",
            "modified_date", "created_date"} |->
        CASE m = "dimensions" -> 10
          [] m = "resolution" -> 9
          [] m = "format_quality" -> 8
          [] m = "filesize" -> 7
          [] m = "modified_date" -> 6
          [] OTHER -> 5]

\* primary_metrics when none are given
DefaultPrimaryMetrics == <<"dimensions", "format_quality", "filesize", "modified_date">>

NoWeights == [m \in {} |-> 0]

NoOverrides == [m \in {} |-> ""]

\* The primary metric lists tried; <<>> stands for a list not given.
PrimaryLists ==
    { <<>>,
      <<"dimensions">>,
      <<"filesize">>,
      <<"dimensions", "filesize">>,
      <<"dimensions", "resolution", "filesize">>,
      <<"resolution", "modified_date">>,
      <<"format_quality", "created_date">>,
      <<"sharpness", "filesize">> }

\* The secondary metric lists and weights tried; NoWeights stands for weights
\* not given.
SecondaryConfigs ==
    { [secondary |-> <<>>, weights |-> NoWeights],
      [secondary |-> <<"filesize">>, weights |-> [m \in {"filesize"} |-> 10]],
      [secondary |-> <<"filesize", "modified_date">>, weights |-> NoWeights],
      [secondary |-> <<"filesize", "modified_date">>,
       weights |-> [m \in {"filesize"} |-> 10]] }

\* The date preferences tried: the global preference and the overrides.
DateConfigs ==
    { [date |-> "newest", overrides |-> NoOverrides],
      [date |-> "oldest", overrides |-> NoOverrides],
      [date |-> "newest", overrides |-> [m \in {"modified_date"} |-> "oldest"]] }

\* The sequences of distinct members of S of length at most n.
DistinctSeqs(S, n) ==
    UNION {{q \in [1..k -> S] : \A i, j \in 1..k : i # j => q[i] # q[j]} : k \in 0..n}

\* get_image_quality(image_path, metric, date_preference): a read that fails
\* is caught and gives 0.
GetImageQuality(img, metric, pref) ==
    LET f == ImageFacts(img)
    IN  CASE metric = "filesize" -> IF f.stat THEN f.size ELSE 0
          [] metric = "modified_date" ->
                IF f.stat THEN (IF pref = "oldest" THEN -f.mtime ELSE f.mtime) ELSE 0
          [] metric = "created_date" ->
                IF f.stat THEN (IF pref = "oldest" THEN -f.ctime ELSE f.ctime) ELSE 0
          [] metric = "format_quality" -> FormatQuality(f.ext)
          [] metric = "dimensions" ->
                IF f.opens THEN Min({f.width, f.height}) ELSE 0
          [] OTHER -> IF f.opens THEN f.width * f.height ELSE 0

\* metric_overrides.get(metric, date_preference)
MetricDatePref(metric) ==
    IF metric \in DOMAIN metric_overrides THEN metric_overrides[metric]
    ELSE date_preference

\* The sub-list of the members of cs that satisfy Keep, in order.
RECURSIVE SelectSeq2(_, _)
SelectSeq2(cs, keep) ==
    IF cs = <<>> THEN <<>>
    ELSE (IF Head(cs) \in keep THEN <<Head(cs)>> ELSE <<>>) \o SelectSeq2(Tail(cs), keep)

\* A filter that keeps the candidates with the lowest value.
KeepWorst(cs, metric) ==
    LET pref == MetricDatePref(metric)
        worst == Min({GetImageQuality(c, metric, pref) : c \in Range(cs)})
    IN  SelectSeq2(cs, {c \in Range(cs) : GetImageQuality(c, metric, pref) = worst})

\* A filter that keeps nothing.
KeepNone(cs, metric) == <<>>

\* best_quality = max(q[1] for q in qualities);
\* candidates = [img for img, quality in qualities if quality == best_quality]
KeepBest(cs, metric) ==
    LET pref == MetricDatePref(metric)
        best_quality == Max({GetImageQuality(c, metric, pref) : c \in Range(cs)})
    IN  SelectSeq2(cs, {c \in Range(cs) : GetImageQuality(c, metric, pref) = best_quality})

\* if not primary_metrics: the default list
EffectivePrimary == IF primary_metrics = <<>> THEN DefaultPrimaryMetrics ELSE primary_metrics

\* if not metric_weights: DEFAULT_METRIC_WEIGHTS
EffectiveWeights == IF DOMAIN metric_weights = {} THEN DefaultMetricWeights ELSE metric_weights

\* The secondary metrics Stage 2 scores: those with a weight (and, as the group
\* is not empty, with values collected).
ScoredMetrics == {m \in Range(secondary_metrics) : m \in DOMAIN EffectiveWeights}

\* metric_ranges[metric]: (min, max, max - min if max > min else 1)
MetricRange(cs, metric) ==
    LET vals == {GetImageQuality(c, metric, MetricDatePref(metric)) : c \in Range(cs)}
    IN  [min |-> Min(vals), max |-> Max(vals),
         range |-> IF Max(vals) > Min(vals) THEN Max(vals) - Min(vals) ELSE 1]

\* The product and the sum of the values of a function with a finite domain.
RECURSIVE ProductOf(_)
ProductOf(f) ==
    IF DOMAIN f = {} THEN 1
    ELSE LET x == CHOOSE y \in DOMAIN f : TRUE
         IN  f[x] * ProductOf([y \in DOMAIN f \ {x} |-> f[y]])

RECURSIVE SumOf(_)
SumOf(f) ==
    IF DOMAIN f = {} THEN 0
    ELSE LET x == CHOOSE y \in DOMAIN f : TRUE
         IN  f[x] + SumOf([y \in DOMAIN f \ {x} |-> f[y]])

\* total_score of a candidate, multiplied by the product of the ranges of the
\* scored metrics (the same positive factor for every candidate), so that
\* totals are compared exactly:
\*   total_score = sum of ((value - min) / range) * weight.
\* secondary_metrics holds no metric twice.
ScaledTotalScore(cs, img) ==
    LET Term(m) == (GetImageQuality(img, m, MetricDatePref(m)) - MetricRange(cs, m).min)
                     * EffectiveWeights[m]
                     * ProductOf([o \in ScoredMetrics \ {m} |-> MetricRange(cs, o).range])
    IN  SumOf([m \in ScoredMetrics |-> Term(m)])

\* normalized = (value - min_val) / range_val if range_val else 1, as the
\* fraction num / den (range_val is never 0, so the else branch is not taken).
Normalized(cs, img, metric) ==
    [num |-> GetImageQuality(img, metric, MetricDatePref(metric)) - MetricRange(cs, metric).min,
     den |-> MetricRange(cs, metric).range]

\* A choice that takes the last of the candidates with the highest total.
LastHighestScored(cs) ==
    LET top == Max({ScaledTotalScore(cs, c) : c \in Range(cs)})
    IN  cs[Max({k \in 1..Len(cs) : ScaledTotalScore(cs, cs[k]) = top})]

\* candidate_scores.sort(key=score, reverse=True); candidate_scores[0][0]:
\* the sort is stable, so the first candidate with the highest total.
HighestScored(cs) ==
    LET top == Max({ScaledTotalScore(cs, c) : c \in Range(cs)})
    IN  cs[Min({k \in 1..Len(cs) : ScaledTotalScore(cs, cs[k]) = top})]

SelectInit ==
    /\ image_group \in DistinctSeqs(Images, MaxGroup)
    /\ primary_metrics \in PrimaryLists
    /\ \E sc \in SecondaryConfigs :
         /\ secondary_metrics = sc.secondary
         /\ metric_weights = sc.weights
    /\ \E dc \in DateConfigs :
         /\ date_preference = dc.date
         /\ metric_overrides = dc.overrides
    /\ candidates = <<>>
    /\ pending = <<>>
    /\ evaluated = <<>>
    /\ best = <<>>
    /\ qpc = "start"

\* The component when another component is at work.
SelectIdle ==
    /\ image_group = <<>>
    /\ primary_metrics = <<>>
    /\ secondary_metrics = <<>>
    /\ metric_weights = NoWeights
    /\ date_preference = ""
    /\ metric_overrides = NoOverrides
    /\ candidates = <<>>
    /\ pending = <<>>
    /\ evaluated = <<>>
    /\ best = <<>>
    /\ qpc = "idle"

selectArgs == <<image_group, primary_metrics, secondary_metrics, metric_weights,
                date_preference, metric_overrides>>

\* candidates = list(image_group); the defaults; a group of at most one member
\* is answered at once.
SelectStart ==
    /\ qpc = "start"
    /\ candidates' = image_group
    /\ pending' = EffectivePrimary
    /\ IF Len(image_group) <= 1
       THEN /\ best' = IF image_group = <<>> THEN <<"None">> ELSE <<image_group[1]>>
            /\ qpc' = "returned"
       ELSE /\ best' = best
            /\ qpc' = "stage1"
    /\ UNCHANGED evaluated
    /\ UNCHANGED selectArgs
    /\ UNCHANGED notSelect

\* One iteration of "for metric in primary_metrics" that does not break.
Stage1Step ==
    /\ qpc = "stage1"
    /\ pending # <<>>
    /\ Len(candidates) > 1
    /\ candidates' = KeepBest(candidates, Head(pending))
    /\ pending' = Tail(pending)
    /\ evaluated' = Append(evaluated, [stage |-> 1, metric |-> Head(pending),
                                       candidates |-> candidates])
    /\ UNCHANGED <<best, qpc>>
    /\ UNCHANGED selectArgs
    /\ UNCHANGED notSelect

\* The loop ends: the list is exhausted, or one candidate is left (break).
Stage1End ==
    /\ qpc = "stage1"
    /\ (pending = <<>> \/ Len(candidates) <= 1)
    /\ qpc' = "stage1_done"
    /\ UNCHANGED <<candidates, pending, evaluated, best>>
    /\ UNCHANGED selectArgs
    /\ UNCHANGED notSelect

\* if len(candidates) == 1: return candidates[0]
ReturnSingle ==
    /\ qpc = "stage1_done"
    /\ Len(candidates) = 1
    /\ best' = <<candidates[1]>>
    /\ qpc' = "returned"
    /\ UNCHANGED <<candidates, pending, evaluated>>
    /\ UNCHANGED selectArgs
    /\ UNCHANGED notSelect

\* Step 2: if secondary_metrics and len(candidates) > 1: both passes over the
\* candidates evaluate every weighted secondary metric; the highest total wins.
Stage2Weighted ==
    /\ qpc = "stage1_done"
    /\ Len(candidates) > 1
    /\ secondary_metrics # <<>>
    /\ evaluated' = evaluated \o
          SelectSeq(
            [k \in 1..Len(secondary_metrics) |->
                [stage |-> 2, metric |-> secondary_metrics[k], candidates |-> candidates]],
            LAMBDA e : e.metric \in DOMAIN EffectiveWeights)
    /\ best' = <<HighestScored(candidates)>>
    /\ qpc' = "returned"
    /\ UNCHANGED <<candidates, pending>>
    /\ UNCHANGED selectArgs
    /\ UNCHANGED notSelect

\* return candidates[0] if candidates else None
ReturnFirst ==
    /\ qpc = "stage1_done"
    /\ Len(candidates) # 1
    /\ ~(secondary_metrics # <<>> /\ Len(candidates) > 1)
    /\ best' = IF candidates = <<>> THEN <<"None">> ELSE <<candidates[1]>>
    /\ qpc' = "returned"
    /\ UNCHANGED <<candidates, pending, evaluated>>
    /\ UNCHANGED selectArgs
    /\ UNCHANGED notSelect

SelectNext ==
    SelectStart \/ Stage1Step \/ Stage1End \/ ReturnSingle \/ Stage2Weighted \/ ReturnFirst

(***************************************************************************)
(* Claims on find_best_image_hybrid                                        *)
(***************************************************************************)
\* The values of the primary metrics of a member, in list order.
PrimaryValues(img) ==
    [k \in 1..Len(EffectivePrimary) |->
        GetImageQuality(img, EffectivePrimary[k], MetricDatePref(EffectivePrimary[k]))]

\* a >= b in the lexicographic order of tuples of equal length.
LexGeq(a, b) ==
    \A k \in 1..Len(a) : (\A j \in 1..(k - 1) : a[j] = b[j]) => a[k] >= b[k]

LexMaximal ==
    {c \in Range(image_group) :
        \A d \in Range(image_group) : LexGeq(PrimaryValues(c), PrimaryValues(d))}

\* min(width, height) as PIL reports it (0 when the file cannot be opened).
MinSide(img) == Min({ImageFacts(img).width, ImageFacts(img).height})

\* C10: for a group of two or more, the candidates left by Stage 1 are the
\* members whose tuple of primary values is lexicographically maximal; metrics
\* are evaluated in list order and only while two or more candidates remain;
\* with primary = [dimensions] a member with the strictly largest
\* min(width, height) is returned.
C10_OrderedElimination ==
    /\ \A k \in 1..Len(evaluated) :
          evaluated[k].stage = 1 =>
              /\ Len(evaluated[k].candidates) >= 2
              /\ evaluated[k].metric = EffectivePrimary[k]
    /\ (qpc \in {"stage1_done", "returned"} /\ Len(image_group) >= 2)
          => Range(candidates) = LexMaximal
    /\ (qpc = "returned" /\ primary_metrics = <<"dimensions">>)
          => \A m \in Range(image_group) :
                (\A o \in Range(image_group) \ {m} : MinSide(m) > MinSide(o))
                    => best = <<m>>

\* Y (1920x1080, 50 bytes) beats X (800x600, 100 bytes) on dimensions; filesize,
\* where X is ahead, is not evaluated.
C10_Witness ==
    /\ qpc = "returned"
    /\ image_group = <<"X", "Y">>
    /\ primary_metrics = <<"dimensions", "filesize">>
    /\ Len(evaluated) = 1
    /\ best = <<"Y">>

\* The same pair with primary = [dimensions].
C10_WitnessDimensions ==
    /\ qpc = "returned"
    /\ image_group = <<"X", "Y">>
    /\ primary_metrics = <<"dimensions">>
    /\ best = <<"Y">>

\* Stage 2 has run: several candidates were left by Stage 1 and secondary
\* metrics are configured.
StageTwoRan ==
    /\ qpc = "returned"
    /\ Len(candidates) > 1
    /\ secondary_metrics # <<>>

\* The secondary metrics that have a registered weight.
WeightedSecondary == {m \in Range(secondary_metrics) : m \in DOMAIN EffectiveWeights}

\* The values of a metric over the candidates left by Stage 1.
SurvivorValues(m) == {GetImageQuality(c, m, MetricDatePref(m)) : c \in Range(candidates)}

\* The denominator of the min-max normalization of a metric (1 when all the
\* values are equal) and the least common denominator of the totals.
Spread(m) ==
    IF Max(SurvivorValues(m)) > Min(SurvivorValues(m))
    THEN Max(SurvivorValues(m)) - Min(SurvivorValues(m)) ELSE 1

CommonDenominator == ProductOf([m \in WeightedSecondary |-> Spread(m)])

\* The sum over the weighted secondary metrics of weight x min-max-normalized
\* value of a candidate, as a multiple of 1 / CommonDenominator.  A metric
\* whose values are all equal adds the same amount to every total.
WeightedTotal(c) ==
    SumOf([m \in WeightedSecondary |->
             EffectiveWeights[m] * (CommonDenominator \div Spread(m))
               * (IF Max(SurvivorValues(m)) > Min(SurvivorValues(m))
                  THEN GetImageQuality(c, m, MetricDatePref(m)) - Min(SurvivorValues(m))
                  ELSE 1)])

C11_WitnessFirstSeen ==
    /\ StageTwoRan
    /\ image_group = <<"X2", "X">>
    /\ secondary_metrics = <<"filesize">>
    /\ best = <<"X2">>

\* C12: in Stage 2, a weighted secondary metric whose raw value is the same
\* for all remaining candidates has the normalized value 1 for every candidate.
C12_EqualValuesNormalizeToOne ==
    StageTwoRan =>
        \A m \in ScoredMetrics :
            Cardinality(SurvivorValues(m)) = 1 =>
                \A c \in Range(candidates) :
                    Normalized(candidates, c, m).num = Normalized(candidates, c, m).den

\* C13: a group of one member is answered with that member and no metric is
\* evaluated; an empty group is answered with None; a non-empty group is
\* answered with one of its members.
C13_SmallGroups ==
    qpc = "returned" =>
        /\ Len(image_group) = 1 => (best = <<image_group[1]>> /\ evaluated = <<>>)
        /\ image_group = <<>> => best = <<"None">>
        /\ image_group # <<>> => (Len(best) = 1 /\ best[1] \in Range(image_group))

\* The group of one unreadable member: it is returned, nothing is evaluated.
C13_Witness ==
    /\ qpc = "returned"
    /\ image_group = <<"Gone">>
    /\ best = <<"Gone">>
    /\ evaluated = <<>>

\* The empty group.
C13_WitnessEmpty ==
    /\ qpc = "returned"
    /\ image_group = <<>>
    /\ best = <<"None">>

\* The value of the metric was read for the image (nothing raised and was
\* replaced by 0); the format quality is looked up, not read.
ValueRead(img, metric) ==
    CASE metric \in {"filesize", "modified_date", "created_date"} -> ImageFacts(img).stat
      [] metric = "format_quality" -> TRUE
      [] OTHER -> ImageFacts(img).opens

\* The candidates left by the k-th metric evaluation.
KeptAfter(k) ==
    IF k < Len(evaluated) THEN Range(evaluated[k + 1].candidates) ELSE Range(candidates)

\* C20: in no elimination step is a candidate whose value could not be read
\* kept while a candidate whose value was read is dropped.
C20_SentinelMinimal ==
    \A k \in 1..Len(evaluated) :
        evaluated[k].stage = 1 =>
            \A c \in KeptAfter(k), d \in Range(evaluated[k].candidates) \ KeptAfter(k) :
                ~(~ValueRead(c, evaluated[k].metric) /\ ValueRead(d, evaluated[k].metric))

\* C27: find_best_image_weighted(group, quality_metrics, weights) is the call
\* find_best_image_hybrid(group, primary_metrics=[], secondary_metrics=
\* quality_metrics, metric_weights=weights).  It selects by weighted
\* evaluation only: no metric eliminates a candidate before the weighting,
\* and the result is the member with the highest weighted total computed
\* over the whole group.
C27_WeightedOnly ==
    (qpc = "returned" /\ primary_metrics = <<>> /\ secondary_metrics # <<>>
        /\ Len(image_group) > 1)
        => /\ \A k \in DOMAIN evaluated : evaluated[k].stage # 1
           /\ best = <<HighestScored(image_group)>>

(***************************************************************************)
(* main, create_output_structure, handle_singletons, collect_best_images   *)
(*                                                                         *)
(* A run is what main does once the images are grouped: the cache is       *)
(* saved, the registry is reset, create_output_structure places every      *)
(* group and the singletons, and collect_best_images gathers the best      *)
(* images.  Paths are strings; the disk is the pair files, subdirs of the   *)
(* placement component, whose domain is the set of directories that exist, *)
(* and content tells which image a file of the output tree holds.  Links   *)
(* are made as on a Unix system (os.symlink).  The selection of the best   *)
(* image uses the default metrics of main.  A dry run may be followed by a *)
(* live run on the same input.                                             *)
(***************************************************************************)
MaxFailures == 1

\* The images of the input: path, name of the parent directory, stem,
\* extension.
RunImages ==
    { [path |-> "in/d1/a.jpg", parent |-> "d1", stem |-> "a", ext |-> ".jpg"],
      [path |-> "in/d1/b.jpg", parent |-> "d1", stem |-> "b", ext |-> ".jpg"],
      [path |-> "in/d2/a.jpg", parent |-> "d2", stem |-> "a", ext |-> ".jpg"],
      [path |-> "in/d2/c.jpg", parent |-> "d2", stem |-> "c", ext |-> ".jpg"],
      [path |-> "in/d1/s.jpg", parent |-> "d1", stem |-> "s", ext |-> ".jpg"] }

ImageAt(path) == CHOOSE i \in RunImages : i.path = path

\* The values of similar_groups tried (the groups of a run are disjoint).
GroupLists ==
    { << <<"in/d1/a.jpg", "in/d1/b.jpg">> >>,
      << <<"in/d1/a.jpg", "in/d1/b.jpg">>, <<"in/d2/a.jpg", "in/d2/c.jpg">> >>,
      << <<"in/d1/b.jpg", "in/d1/a.jpg">>, <<"in/d1/s.jpg">> >>,
      << <<"in/d1/a.jpg", "in/d2/a.jpg", "in/d1/b.jpg">>, <<"in/d2/c.jpg">>,
         <<"in/d1/s.jpg">> >>,
      << <<"in/d1/s.jpg">> >> }

\* file_handling, copy_best, create_backlinks (backlinks are made on a move)
TransferModes ==
    {m \in [file_handling : {"symlink", "copy", "move"}, copy_best : BOOLEAN,
            create_backlinks : BOOLEAN] :
        m.create_backlinks => m.file_handling = "move"}

\* max_path_length: the default, and a length the candidate paths exceed
MaxPathLengths == {250, 40}

\* The arguments of a run.
RunArgs ==
    {[similar_groups |-> gl, file_handling |-> m.file_handling,
      copy_best |-> m.copy_best, create_backlinks |-> m.create_backlinks,
      max_path_length |-> len, dryrun |-> dry, cache |-> cache,
      collect_results |-> collect] :
        gl \in GroupLists, m \in TransferModes, len \in MaxPathLengths,
        dry \in BOOLEAN, cache \in BOOLEAN, collect \in BOOLEAN}

OutputDir == "out"

SingletonsSubdir == "_singletons_"

Suffix == "_candidates"

CollectionName == "best_collection"

CacheName == ".embedding_cache.pkl"

CollisionStrategy == "hierarchical"

CollectionMode == "copy"

\* os.path.join
Join(d, n) == d \o "/" \o n

\* f.startswith('.')
StartsWithDot(f) == Len(f) >= 1 /\ SubSeq(f, 1, 1) = "."

\* f.endswith('.txt')
EndsWithTxt(f) == Len(f) >= 4 /\ SubSeq(f, Len(f) - 3, Len(f)) = ".txt"

\* The position of the last c in f, 0 if there is none.
LastIndexOf(f, c) ==
    LET ks == {k \in 1..Len(f) : SubSeq(f, k, k) = c}
    IN  IF ks = {} THEN 0 ELSE Max(ks)

\* os.path.splitext of a file name: a leading dot starts no extension.
SplitExt(f) ==
    LET k == LastIndexOf(f, ".")
    IN  IF k <= 1 THEN [stem |-> f, ext |-> ""]
        ELSE [stem |-> SubSeq(f, 1, k - 1), ext |-> SubSeq(f, k, Len(f))]

\* os.path.dirname and os.path.basename of a path with a directory part.
DirName(p) == SubSeq(p, 1, LastIndexOf(p, "/") - 1)

BaseName(p) == SubSeq(p, LastIndexOf(p, "/") + 1, Len(p))

\* hashlib.md5(name.encode()).hexdigest()[:8] of the names a run shortens
NameHash(name) ==
    CASE name = "a" -> "0cc175b9"
      [] name = "b" -> "92eb5ffe"
      [] name = "c" -> "4a8a08f0"
      [] name = "s" -> "03c7c0ac"
      [] name = "a_d2" -> "5347d984"
      [] name = "a_candidates" -> "017f16cb"
      [] name = "a_800x600_candidates" -> "2e78d5d6"
      [] OTHER -> "d41d8cd9"

\* if handle_long_paths and len(path) > max_path_length: create_safe_path(path,
\* max_path_length), for path = dir/filename: the file name to use and the
\* name of the sidecar ("" for None).
SafePathOf(dir, filename, maxlen) ==
    LET full == Join(dir, filename)
        excess == Len(full) - maxlen
        se == SplitExt(filename)
        keep == Max({3, Len(se.stem) - excess - 10})
        shortened_name == SubSeq(se.stem, 1, Min({keep, Len(se.stem)}))
                            \o "_" \o NameHash(se.stem)
    IN  IF Len(full) <= maxlen THEN [name |-> filename, sidecar |-> ""]
        ELSE [name |-> shortened_name \o se.ext, sidecar |-> shortened_name \o ".txt"]

\* for metric in primary_metrics: ... of find_best_image_hybrid
RECURSIVE Eliminate(_, _)
Eliminate(cs, metrics) ==
    IF metrics = <<>> \/ Len(cs) <= 1 THEN cs
    ELSE Eliminate(KeepBest(cs, Head(metrics)), Tail(metrics))

\* find_best_image_hybrid(image_group) with the default metrics, newest dates
\* and no secondary metrics: the first candidate left by the elimination.
BestImageOf(group) == Eliminate(group, DefaultPrimaryMetrics)[1]

\* naming_pattern.format(filename, width, height) with get_image_dimensions
DirNameOf(best_image) ==
    LET f == ImageFacts(best_image)
    IN  ImageAt(best_image).stem \o "_"
          \o ToString(IF f.opens THEN f.width ELSE 0) \o "x"
          \o ToString(IF f.opens THEN f.height ELSE 0) \o "_candidates"

\* group_dir of a group, after the long-path guard
GroupDirOf(group) ==
    LET safe == SafePathOf(OutputDir, DirNameOf(BestImageOf(group)), args.max_path_length)
    IN  [path |-> Join(OutputDir, safe.name), name |-> safe.name, sidecar |-> safe.sidecar]

\* candidates_dir of a group, after the long-path guard
CandidatesDirOf(group) ==
    LET gd == GroupDirOf(group).path
        safe == SafePathOf(gd, ImageAt(BestImageOf(group)).stem \o Suffix,
                           args.max_path_length)
    IN  [path |-> Join(gd, safe.name), name |-> safe.name, sidecar |-> safe.sidecar]

\* The disk as one value: files, subdirs and content.
Disk == [files |-> files, subdirs |-> subdirs, content |-> content]

NoContent == [p \in {} |-> ""]

\* os.makedirs(d, exist_ok=True): d and the ancestors of d that are missing
\* are created ("." is the working directory).
RECURSIVE MakeDirs(_, _)
MakeDirs(t, d) ==
    IF d \in DOMAIN t.files THEN t
    ELSE LET top == LastIndexOf(d, "/") = 0
             parent == IF top THEN "." ELSE DirName(d)
             name == IF top THEN d ELSE BaseName(d)
             up == MakeDirs(t, parent)
         IN  [up EXCEPT
                !.files = [x \in DOMAIN up.files \cup {d} |->
                             IF x = d THEN {} ELSE up.files[x]],
                !.subdirs = [x \in DOMAIN up.subdirs \cup {d} |->
                               IF x = d THEN {}
                               ELSE IF x = parent THEN up.subdirs[x] \cup {name}
                               ELSE up.subdirs[x]]]

\* A file name appears in the directory d and holds image.
WriteFile(t, d, name, image) ==
    [t EXCEPT
        !.files = [t.files EXCEPT ![d] = t.files[d] \cup {name}],
        !.content = [p \in DOMAIN t.content \cup {Join(d, name)} |->
                        IF p = Join(d, name) THEN image ELSE t.content[p]]]

\* A file leaves the directory d (it was moved away).
RemoveFile(t, d, name) ==
    [t EXCEPT
        !.files = [t.files EXCEPT ![d] = t.files[d] \ {name}],
        !.content = [p \in DOMAIN t.content \ {Join(d, name)} |-> t.content[p]]]

\* A sidecar that is written although the run is a dry run.
WritesMetadataAlways(sidecar) == sidecar # ""

\* if metadata_path and not dryrun: write_metadata_file(...)
WritesMetadata(sidecar) == sidecar # "" /\ ~args.dryrun

\* write_metadata_file(metadata_path, ...) into the directory d, which it
\* creates if needed
WithMetadata(t, d, sidecar) ==
    IF WritesMetadata(sidecar) THEN WriteFile(MakeDirs(t, d), d, sidecar, "metadata")
    ELSE t

\* The sidecars an action has written into a directory.
Sidecars(sidecar) == IF WritesMetadata(sidecar) THEN {sidecar} ELSE {}

\* The source of a transfer: an image of the input, or a file of the output
\* tree (collect pass).
InputSource(p) ==
    [path |-> p, parent |-> ImageAt(p).parent, stem |-> ImageAt(p).stem,
     ext |-> ImageAt(p).ext, input |-> TRUE, dir |-> DirName(p), name |-> BaseName(p)]

OutputSource(d, name) ==
    [path |-> Join(d, name), parent |-> BaseName(d), stem |-> SplitExt(name).stem,
     ext |-> SplitExt(name).ext, input |-> FALSE, dir |-> d, name |-> name]

SourceExists(src) ==
    IF src.input THEN src.path \in present
    ELSE src.dir \in DOMAIN files /\ src.name \in files[src.dir]

\* The image a source holds.
ImageOf(src) == IF src.input THEN src.path ELSE content[src.path]

\* The mode and the backlink flag of the transfer of the best image
BestMode ==
    IF args.copy_best \/ args.file_handling = "copy" THEN "copy"
    ELSE IF args.file_handling = "move" THEN "move" ELSE "symlink"

BestBacklink == ~args.copy_best /\ args.file_handling = "move" /\ args.create_backlinks

\* The mode and the backlink flag of the transfer of a candidate or singleton
CandidateMode ==
    IF args.file_handling \in {"copy", "move"} THEN args.file_handling ELSE "symlink"

CandidateBacklink == args.file_handling = "move" /\ args.create_backlinks

\* handle_duplicate(source_path, dest_path, mode, create_backlink, strategy)
\* for dest_path = d/filename on the disk t, which differs from the disk of the
\* state by the sidecars just written into d: get_unique_path; then copy2 and
\* move need the source to exist, os.symlink does not; ok = FALSE is a transfer
\* that raises for another reason.  A transfer that raises leaves the name
\* claimed and the disk as it was.
Transfer(t, src, d, filename, mode, backlink, ok, sidecars) ==
    LET se == SplitExt(filename)
        done == ok /\ (mode = "symlink" \/ SourceExists(src))
        g == GetUniquePathResult(d, se.stem, se.ext, src, CollisionStrategy, done)
        placed == WriteFile(t, d, g.call.name, ImageOf(src))
        gone == mode = "move" /\ ~backlink
    IN  [registry |-> IF g.call.seeded THEN [g.reg EXCEPT ![d] = @ \cup sidecars]
                      ELSE g.reg,
         call |-> g.call,
         raised |-> ~done,
         dest |-> Join(d, g.call.name),
         disk |-> IF ~done THEN t
                  ELSE IF gone /\ ~src.input THEN RemoveFile(placed, src.dir, src.name)
                  ELSE placed,
         present |-> IF done /\ gone /\ src.input THEN present \ {src.path} ELSE present]

\* The record of a transfer that raised.
Failure(kind, src, group_idx, ok) ==
    [kind |-> kind, src |-> src.path, group |-> group_idx, injected |-> ~ok]

\* The failures a run may still meet for no reason of its own.
MayFail == IF Cardinality({f \in failed : f.injected}) < MaxFailures THEN BOOLEAN ELSE {TRUE}

NoWork ==
    [group_idx |-> 0, best_image |-> "", group_dir |-> "", candidates_dir |-> "",
     best_image_dest |-> "", next |-> 0, candidate_count |-> 0, todo |-> <<>>]

NoEarlier == [made |-> FALSE, results |-> <<>>]

RunInit ==
    /\ args \in RunArgs
    /\ present = {i.path : i \in RunImages}
    /\ registry = EmptyRegistry
    /\ files = [d \in {"."} |-> {}]
    /\ subdirs = [d \in {"."} |-> {"in"}]
    /\ content = NoContent
    /\ returned = <<>>
    /\ last = NoCall
    /\ calls = 0
    /\ results = <<>>
    /\ singletons = <<>>
    /\ work = NoWork
    /\ failed = {}
    /\ earlier = NoEarlier
    /\ collected = 0
    /\ rpc = "start"

\* The run component when another component is at work.
RunIdle ==
    /\ args = [similar_groups |-> <<>>]
    /\ present = {}
    /\ content = NoContent
    /\ results = <<>>
    /\ singletons = <<>>
    /\ work = NoWork
    /\ failed = {}
    /\ earlier = NoEarlier
    /\ collected = 0
    /\ rpc = "idle"

\* The group the loop of create_output_structure is at.
CurrentGroup == args.similar_groups[work.group_idx]

\* main before create_output_structure: the output directory is made and the
\* cache is saved unless the run is a dry run, the registry is reset; then
\* create_output_structure makes the output directory unless dry.
MainStart ==
    /\ rpc = "start"
    /\ LET made == IF args.dryrun THEN Disk ELSE MakeDirs(Disk, OutputDir)
           saved == IF args.cache /\ ~args.dryrun
                    THEN WriteFile(made, OutputDir, CacheName, "cache") ELSE made
       IN  /\ files' = saved.files
           /\ subdirs' = saved.subdirs
           /\ content' = saved.content
    /\ registry' = RegistryAfterReset
    /\ last' = NoCall
    /\ results' = <<>>
    /\ singletons' = <<>>
    /\ work' = [NoWork EXCEPT !.group_idx = 1]
    /\ rpc' = "groups"
    /\ UNCHANGED <<args, present, failed, earlier, collected>>
    /\ UNCHANGED notRun

\* if len(image_group) == 1 and include_singletons: singletons.append(...)
TakeSingleton ==
    /\ rpc = "groups"
    /\ work.group_idx <= Len(args.similar_groups)
    /\ Len(CurrentGroup) = 1
    /\ singletons' = Append(singletons, CurrentGroup[1])
    /\ work' = [work EXCEPT !.group_idx = @ + 1]
    /\ UNCHANGED <<args, present, content, results, failed, earlier, collected, rpc>>
    /\ UNCHANGED <<registry, files, subdirs, last>>
    /\ UNCHANGED notRun

\* A group of several images: the best image, the names of the group
\* directory and of the candidates directory (sidecars are written for
\* shortened names), and unless dry the two directories are made.
GroupDirs ==
    /\ rpc = "groups"
    /\ work.group_idx <= Len(args.similar_groups)
    /\ Len(CurrentGroup) > 1
    /\ \E gd \in {GroupDirOf(CurrentGroup)} :
       \E cd \in {CandidatesDirOf(CurrentGroup)} :
       \E t1 \in {WithMetadata(Disk, OutputDir, gd.sidecar)} :
       \E t2 \in {WithMetadata(t1, gd.path, cd.sidecar)} :
       \E t3 \in {IF args.dryrun THEN t2 ELSE MakeDirs(MakeDirs(t2, gd.path), cd.path)} :
           /\ files' = t3.files
           /\ subdirs' = t3.subdirs
           /\ content' = t3.content
           /\ work' = [work EXCEPT !.best_image = BestImageOf(CurrentGroup),
                                   !.group_dir = gd.path,
                                   !.candidates_dir = cd.path]
    /\ rpc' = "best"
    /\ UNCHANGED <<args, present, results, singletons, failed, earlier, collected>>
    /\ UNCHANGED <<registry, last>>
    /\ UNCHANGED notRun

\* The best image goes into the group directory; if the transfer raises the
\* loop continues with the next group.
BestPlacement ==
    /\ rpc = "best"
    /\ LET safe == SafePathOf(work.group_dir, BaseName(work.best_image),
                              args.max_path_length)
           t1 == WithMetadata(Disk, work.group_dir, safe.sidecar)
       IN  IF args.dryrun
           THEN /\ files' = t1.files
                /\ subdirs' = t1.subdirs
                /\ content' = t1.content
                /\ work' = [work EXCEPT !.best_image_dest = Join(work.group_dir, safe.name),
                                        !.next = 1, !.candidate_count = 0]
                /\ rpc' = "candidates"
                /\ UNCHANGED <<registry, last, present, failed>>
           ELSE \E ok \in MayFail :
                  LET x == Transfer(t1, InputSource(work.best_image), work.group_dir,
                                    safe.name, BestMode, BestBacklink, ok,
                                    Sidecars(safe.sidecar))
                  IN  /\ registry' = x.registry
                      /\ last' = x.call
                      /\ files' = x.disk.files
                      /\ subdirs' = x.disk.subdirs
                      /\ content' = x.disk.content
                      /\ present' = x.present
                      /\ IF x.raised
                         THEN /\ failed' = failed \cup
                                    {Failure("best", InputSource(work.best_image),
                                             work.group_idx, ok)}
                              /\ work' = [NoWork EXCEPT !.group_idx = work.group_idx + 1]
                              /\ rpc' = "groups"
                         ELSE /\ failed' = failed
                              /\ work' = [work EXCEPT !.best_image_dest = x.dest,
                                                      !.next = 1, !.candidate_count = 0]
                              /\ rpc' = "candidates"
    /\ UNCHANGED <<args, results, singletons, earlier, collected>>
    /\ UNCHANGED notRun

\* One member of the group goes into the candidates directory; a transfer
\* that raises is logged and not counted.
CandidatePlacement ==
    /\ rpc = "candidates"
    /\ work.next <= Len(CurrentGroup)
    /\ LET image_path == CurrentGroup[work.next]
           safe == SafePathOf(work.candidates_dir, BaseName(image_path),
                              args.max_path_length)
           t1 == WithMetadata(Disk, work.candidates_dir, safe.sidecar)
       IN  IF args.dryrun
           THEN /\ files' = t1.files
                /\ subdirs' = t1.subdirs
                /\ content' = t1.content
                /\ work' = [work EXCEPT !.next = @ + 1]
                /\ UNCHANGED <<registry, last, present, failed>>
           ELSE \E ok \in MayFail :
                  LET x == Transfer(t1, InputSource(image_path), work.candidates_dir,
                                    safe.name, CandidateMode, CandidateBacklink, ok,
                                    Sidecars(safe.sidecar))
                  IN  /\ registry' = x.registry
                      /\ last' = x.call
                      /\ files' = x.disk.files
                      /\ subdirs' = x.disk.subdirs
                      /\ content' = x.disk.content
                      /\ present' = x.present
                      /\ failed' = IF x.raised
                                   THEN failed \cup {Failure("candidate", InputSource(image_path),
                                                             work.group_idx, ok)}
                                   ELSE failed
                      /\ work' = [work EXCEPT
                                    !.next = @ + 1,
                                    !.candidate_count = IF x.raised THEN @ ELSE @ + 1]
    /\ UNCHANGED <<args, results, singletons, earlier, collected, rpc>>
    /\ UNCHANGED notRun

\* results.append(...) and the next group
GroupEnd ==
    /\ rpc = "candidates"
    /\ work.next > Len(CurrentGroup)
    /\ results' = Append(results,
                         [best_image |-> work.best_image,
                          best_image_dest |-> work.best_image_dest,
                          candidates_dir |-> work.candidates_dir,
                          total_candidates |-> work.candidate_count])
    /\ work' = [NoWork EXCEPT !.group_idx = work.group_idx + 1]
    /\ rpc' = "groups"
    /\ UNCHANGED <<args, present, content, singletons, failed, earlier, collected>>
    /\ UNCHANGED <<registry, files, subdirs, last>>
    /\ UNCHANGED notRun

\* The loop over the groups ends.
GroupsEnd ==
    /\ rpc = "groups"
    /\ work.group_idx > Len(args.similar_groups)
    /\ work' = NoWork
    /\ rpc' = "singletons"
    /\ UNCHANGED <<args, present, content, results, singletons, failed, earlier, collected>>
    /\ UNCHANGED <<registry, files, subdirs, last>>
    /\ UNCHANGED notRun

SingletonsDir == Join(OutputDir, SingletonsSubdir)

CollectionDir == Join(OutputDir, CollectionName)

\* handle_singletons of a live run with singletons: the directory is made.
SingletonsBegin ==
    /\ rpc = "singletons"
    /\ singletons # <<>>
    /\ ~args.dryrun
    /\ LET t1 == MakeDirs(Disk, SingletonsDir)
       IN  /\ files' = t1.files
           /\ subdirs' = t1.subdirs
           /\ content' = t1.content
    /\ work' = [NoWork EXCEPT !.next = 1]
    /\ rpc' = "singleton_files"
    /\ UNCHANGED <<args, present, results, singletons, failed, earlier, collected>>
    /\ UNCHANGED <<registry, last>>
    /\ UNCHANGED notRun

\* No singletons, or a dry run: nothing is placed.
SingletonsSkip ==
    /\ rpc = "singletons"
    /\ (singletons = <<>> \/ args.dryrun)
    /\ rpc' = "returned"
    /\ UNCHANGED <<args, present, content, results, singletons, work, failed, earlier,
                   collected>>
    /\ UNCHANGED <<registry, files, subdirs, last>>
    /\ UNCHANGED notRun

\* One singleton goes into the singletons directory; a transfer that raises
\* is logged.
SingletonPlacement ==
    /\ rpc = "singleton_files"
    /\ work.next <= Len(singletons)
    /\ LET singleton_path == singletons[work.next]
           safe == SafePathOf(SingletonsDir, BaseName(singleton_path),
                              args.max_path_length)
           t1 == WithMetadata(Disk, SingletonsDir, safe.sidecar)
       IN  \E ok \in MayFail :
             LET x == Transfer(t1, InputSource(singleton_path), SingletonsDir, safe.name,
                               args.file_handling, args.create_backlinks, ok,
                               Sidecars(safe.sidecar))
             IN  /\ registry' = x.registry
                 /\ last' = x.call
                 /\ files' = x.disk.files
                 /\ subdirs' = x.disk.subdirs
                 /\ content' = x.disk.content
                 /\ present' = x.present
                 /\ failed' = IF x.raised
                              THEN failed \cup {Failure("singleton", InputSource(singleton_path),
                                                        0, ok)}
                              ELSE failed
    /\ work' = [work EXCEPT !.next = @ + 1]
    /\ UNCHANGED <<args, results, singletons, earlier, collected, rpc>>
    /\ UNCHANGED notRun

\* handle_singletons and create_output_structure return.
SingletonsEnd ==
    /\ rpc = "singleton_files"
    /\ work.next > Len(singletons)
    /\ work' = NoWork
    /\ rpc' = "returned"
    /\ UNCHANGED <<args, present, content, results, singletons, failed, earlier, collected>>
    /\ UNCHANGED <<registry, files, subdirs, last>>
    /\ UNCHANGED notRun

\* if args.collect_results and not args.dryrun and results
CollectRequested == args.collect_results /\ ~args.dryrun /\ results # <<>>

\* The entries of a directory that hold an image: regular files whose name
\* neither starts with a dot nor ends with .txt.
ImageFiles(t, d) == {f \in t.files[d] : ~StartsWithDot(f) /\ ~EndsWithTxt(f)}

\* The collect pass begins: the registry is reset, the collection directory
\* is made, and the directories of the output root other than the singletons
\* directory are listed (os.listdir gives them in any order).
CollectBegin ==
    /\ rpc = "returned"
    /\ CollectRequested
    /\ registry' = RegistryAfterReset
    /\ last' = NoCall
    /\ LET t1 == MakeDirs(Disk, CollectionDir)
           group_dirs == {Join(OutputDir, item) : item \in
                            {i \in t1.subdirs[OutputDir] :
                                ~StartsWithDot(i) /\ i # SingletonsSubdir}}
       IN  /\ files' = t1.files
           /\ subdirs' = t1.subdirs
           /\ content' = t1.content
           /\ \E order \in Perms(group_dirs) : work' = [NoWork EXCEPT !.todo = order]
    /\ collected' = 0
    /\ rpc' = "collect"
    /\ UNCHANGED <<args, present, results, singletons, failed, earlier>>
    /\ UNCHANGED notRun

\* No collect pass.
CollectSkip ==
    /\ rpc = "returned"
    /\ ~CollectRequested
    /\ rpc' = "done"
    /\ UNCHANGED <<args, present, content, results, singletons, work, failed, earlier,
                   collected>>
    /\ UNCHANGED <<registry, files, subdirs, last>>
    /\ UNCHANGED notRun

\* One file src of the directory d is collected.
CollectFile(d, f, kind, ok) ==
    LET safe == SafePathOf(CollectionDir, f, args.max_path_length)
        t1 == WithMetadata(Disk, CollectionDir, safe.sidecar)
        x == Transfer(t1, OutputSource(d, f), CollectionDir, safe.name, CollectionMode,
                      args.create_backlinks, ok, Sidecars(safe.sidecar))
    IN  /\ registry' = x.registry
        /\ last' = x.call
        /\ files' = x.disk.files
        /\ subdirs' = x.disk.subdirs
        /\ content' = x.disk.content
        /\ present' = x.present
        /\ failed' = IF x.raised THEN failed \cup {Failure(kind, OutputSource(d, f), 0, ok)}
                     ELSE failed
        /\ collected' = IF x.raised THEN collected ELSE collected + 1

\* One listed directory: the first image file found in it (in listing order,
\* any of them) is collected as its best image; a directory without one is
\* skipped.
CollectGroup ==
    /\ rpc = "collect"
    /\ work.todo # <<>>
    /\ LET group_dir == Head(work.todo)
       IN  IF ImageFiles(Disk, group_dir) = {}
           THEN UNCHANGED <<registry, last, files, subdirs, content, present, failed,
                            collected>>
           ELSE \E best_image \in ImageFiles(Disk, group_dir), ok \in MayFail :
                    CollectFile(group_dir, best_image, "collect", ok)
    /\ work' = [work EXCEPT !.todo = Tail(@)]
    /\ UNCHANGED <<args, results, singletons, earlier, rpc>>
    /\ UNCHANGED notRun

\* The listed directories are done: the files of the singletons directory, if
\* it exists, are listed.
CollectSingletonsBegin ==
    /\ rpc = "collect"
    /\ work.todo = <<>>
    /\ LET singleton_files == IF SingletonsDir \in DOMAIN files
                              THEN ImageFiles(Disk, SingletonsDir) ELSE {}
       IN  \E order \in Perms(singleton_files) : work' = [work EXCEPT !.todo = order]
    /\ rpc' = "collect_singletons"
    /\ UNCHANGED <<args, present, content, results, singletons, failed, earlier, collected>>
    /\ UNCHANGED <<registry, files, subdirs, last>>
    /\ UNCHANGED notRun

\* One singleton file is collected.
CollectSingleton ==
    /\ rpc = "collect_singletons"
    /\ work.todo # <<>>
    /\ \E ok \in MayFail : CollectFile(SingletonsDir, Head(work.todo), "collect_singleton", ok)
    /\ work' = [work EXCEPT !.todo = Tail(@)]
    /\ UNCHANGED <<args, results, singletons, earlier, rpc>>
    /\ UNCHANGED notRun

\* collect_best_images returns collected_count.
CollectEnd ==
    /\ rpc = "collect_singletons"
    /\ work.todo = <<>>
    /\ work' = NoWork
    /\ rpc' = "done"
    /\ UNCHANGED <<args, present, content, results, singletons, failed, earlier, collected>>
    /\ UNCHANGED <<registry, files, subdirs, last>>
    /\ UNCHANGED notRun

\* After a dry run the same input is run live.
LiveRun ==
    /\ rpc = "done"
    /\ args.dryrun
    /\ earlier' = [made |-> TRUE, results |-> results]
    /\ args' = [args EXCEPT !.dryrun = FALSE]
    /\ rpc' = "start"
    /\ UNCHANGED <<present, content, results, singletons, work, failed, collected>>
    /\ UNCHANGED <<registry, files, subdirs, last>>
    /\ UNCHANGED notRun

RunNext ==
    \/ MainStart \/ TakeSingleton \/ GroupDirs \/ BestPlacement \/ CandidatePlacement
    \/ GroupEnd \/ GroupsEnd \/ SingletonsBegin \/ SingletonsSkip \/ SingletonPlacement
    \/ SingletonsEnd \/ CollectBegin \/ CollectSkip \/ CollectGroup
    \/ CollectSingletonsBegin \/ CollectSingleton \/ CollectEnd \/ LiveRun

(***************************************************************************)
(* Claims about a run                                                      *)
(***************************************************************************)
\* The groups of the input with more than one member, in input order.
MultiGroups == SelectSeq(args.similar_groups, LAMBDA g : Len(g) > 1)

C15_DryRunSameResults ==
    (rpc = "done" /\ earlier.made /\ failed = {}) => earlier.results = results

\* No failure was injected into the run.
NoInjectedFailure == \A f \in failed : ~f.injected

\* The image is an entry of the directory d.
HeldIn(d, image) == \E p \in DOMAIN content : DirName(p) = d /\ content[p] = image

\* The loop over the groups has left the group of index g behind.
GroupPassed(g) ==
    /\ rpc \notin {"idle", "start"}
    /\ rpc \in {"groups", "best", "candidates"} => work.group_idx > g

\* C16: a transfer that fails is skipped and stops nothing else: when the
\* placement of the best image of a group fails, each member of the group is
\* still transferred into its candidates directory, and the groups after it
\* are processed.
C16_FailureSkipsOnlyItself ==
    \A f \in failed :
        (f.kind = "best" /\ GroupPassed(f.group)) =>
            LET group == args.similar_groups[f.group]
            IN  \A j \in DOMAIN group :
                    \/ HeldIn(CandidatesDirOf(group).path, group[j])
                    \/ \E h \in failed :
                           h.kind = "candidate" /\ h.group = f.group /\ h.src = group[j]

\* C17: whatever the transfer mode, once create_output_structure has returned
\* from a live run without injected failure, each group of several images has
\* its best image in the group directory, an entry for every member (the best
\* image too) in the candidates directory, and total_candidates equal to the
\* size of the group.
C17_EveryMemberACandidate ==
    (rpc = "returned" /\ ~args.dryrun /\ NoInjectedFailure) =>
        \A k \in DOMAIN MultiGroups :
            LET group == MultiGroups[k]
            IN  /\ \E i \in DOMAIN results :
                       /\ results[i].best_image = BestImageOf(group)
                       /\ results[i].best_image_dest \in DOMAIN content
                       /\ content[results[i].best_image_dest] = BestImageOf(group)
                       /\ results[i].total_candidates = Len(group)
                /\ \A j \in DOMAIN group :
                       HeldIn(CandidatesDirOf(group).path, group[j])

\* C18: the group directory goes through the collision-safe placer: no two
\* groups of a live run share a group directory, and each group directory
\* holds exactly one best image.
C18_GroupDirsDistinct ==
    (rpc = "returned" /\ ~args.dryrun /\ NoInjectedFailure) =>
        /\ \A i, j \in DOMAIN results :
               i # j => DirName(results[i].best_image_dest)
                          # DirName(results[j].best_image_dest)
        /\ \A i \in DOMAIN results :
               Cardinality(ImageFiles(Disk, DirName(results[i].best_image_dest))) = 1

\* The group directories under the output root: its directories other than
\* the singletons directory and the collection directory.
GroupDirsOnDisk ==
    {d \in subdirs[OutputDir] :
        ~StartsWithDot(d) /\ d # SingletonsSubdir /\ d # CollectionName}

\* The singleton files under the output root.
SingletonFilesOnDisk ==
    IF SingletonsDir \in DOMAIN files THEN ImageFiles(Disk, SingletonsDir) ELSE {}

\* C19: with G group directories and S singleton files under the output root
\* and no transfer failing, collect_best_images collects G + S files and the
\* collection directory, which lies inside the output root, ends with G + S
\* image files, whatever the order of the listing.
C19_CollectsOnePerGroup ==
    (rpc = "done" /\ CollectRequested /\ NoInjectedFailure) =>
        LET total == Cardinality(GroupDirsOnDisk) + Cardinality(SingletonFilesOnDisk)
        IN  /\ collected = total
            /\ Cardinality(ImageFiles(Disk, CollectionDir)) = total

\* C26: main resets the filename registry before each output-building pass:
\* the step that enters create_output_structure and the step that enters
\* collect_best_images both leave the registry empty, so the collect pass
\* starts without an entry of the group and singleton pass.
C26_ResetBeforeEachPass ==
    [][((rpc = "start" /\ rpc' = "groups") \/ (rpc = "returned" /\ rpc' = "collect"))
          => registry' = EmptyRegistry]_vars

\* The collect pass is at its start with an empty registry, after a pass that
\* placed the best image of a group (and so claimed its name).
C26_Witness ==
    /\ rpc = "collect"
    /\ collected = 0
    /\ registry = EmptyRegistry
    /\ \E i \in DOMAIN results : results[i].best_image_dest \in DOMAIN content

\* C28: when collection is asked for and the run is not a dry run, the
\* collect pass runs and gathers every singleton, also when the input holds
\* no group of several images.
C28_CollectsSingletonsAlone ==
    (rpc = "done" /\ args.collect_results /\ ~args.dryrun /\ NoInjectedFailure) =>
        \A k \in DOMAIN singletons : HeldIn(CollectionDir, singletons[k])

(***************************************************************************)
(* main up to the grouping: parse_metric_weights, the validation of the    *)
(* inputs, load_cache, compute_embeddings_batch, save_cache and the ids     *)
(* handed to group_similar_images.                                         *)
(*                                                                         *)
(* A dictionary of embeddings is a function from paths to vectors; the     *)
(* vector of an entry read from the cache file is "cached", the vector     *)
(* computed in this run is "computed".                                     *)
(***************************************************************************)
\* The images under the input directories, and a path cached by an earlier
\* run that is not under them.
CurrentImages == {"in/d1/a.jpg", "in/d1/b.jpg"}

StalePath == "old/z.jpg"

\* The dictionary with the keys ks, each with the vector v.
DictOf(ks, v) == [p \in ks |-> v]

\* --metric-weights after split(','): each pair after split(':').
WeightSpecs ==
    { <<>>,
      << <<"dimensions", "1.0">>, <<"filesize", "0.8">> >>,
      << <<"dimensions", "high">>, <<"filesize", "0.8">> >>,
      << <<"dimensions">>, <<"filesize", "0.8">> >>,
      << <<"dimensions", "1.0", "2">>, <<"filesize", "0.8">> >> }

\* float(weight) succeeds
IsFloat(text) == text \in {"1.0", "0.8"}

\* float(weight), in tenths
FloatOf(text) == IF text = "1.0" THEN 10 ELSE 8

\* parse_metric_weights(weights_str): a pair without ':' is skipped, a weight
\* that is no number is passed over, a pair with two ':' raises at the
\* unpacking, which ends the loop with a warning; the weights read so far are
\* returned.
RECURSIVE ParseMetricWeights(_, _)
ParseMetricWeights(pairs, weights) ==
    IF pairs = <<>> THEN weights
    ELSE LET pair == Head(pairs)
         IN  IF Len(pair) = 1 THEN ParseMetricWeights(Tail(pairs), weights)
             ELSE IF Len(pair) > 2 THEN weights
             ELSE IF ~IsFloat(pair[2]) THEN ParseMetricWeights(Tail(pairs), weights)
             ELSE ParseMetricWeights(Tail(pairs),
                      [m \in DOMAIN weights \cup {pair[1]} |->
                          IF m = pair[1] THEN FloatOf(pair[2]) ELSE weights[m]])

\* What the output directory holds before the run: nothing (it does not
\* exist), no cache file, or a cache file.
CacheFiles == {<<>>} \cup {<<DictOf(ks, "cached")>> : ks \in SUBSET (CurrentImages \cup {StalePath})}

MainInit ==
    /\ output_exists \in BOOLEAN
    /\ cache_file \in (IF output_exists THEN CacheFiles ELSE {<<>>})
    /\ \E all_images \in SUBSET CurrentImages :
       \E flags \in [input_dirs_valid : BOOLEAN, force : BOOLEAN, cache : BOOLEAN,
                     dryrun : BOOLEAN, model_loads : BOOLEAN,
                     embeddable : SUBSET all_images, metric_weights : WeightSpecs] :
         opts = [input_dirs_valid |-> flags.input_dirs_valid, force |-> flags.force,
                 cache |-> flags.cache, dryrun |-> flags.dryrun,
                 model_loads |-> flags.model_loads, embeddable |-> flags.embeddable,
                 metric_weights |-> flags.metric_weights, all_images |-> all_images,
                 output_existed |-> output_exists, cache_before |-> cache_file]
    /\ parsed_weights = <<>>
    /\ cached_embeddings = DictOf({}, "")
    /\ embeddings = DictOf({}, "")
    /\ grouped = <<>>
    /\ exit_code = <<>>
    /\ mpc = "start"

\* The component when another component is at work.
MainIdle ==
    /\ opts = [all_images |-> {}]
    /\ output_exists = FALSE
    /\ cache_file = <<>>
    /\ parsed_weights = <<>>
    /\ cached_embeddings = DictOf({}, "")
    /\ embeddings = DictOf({}, "")
    /\ grouped = <<>>
    /\ exit_code = <<>>
    /\ mpc = "idle"

\* main l.319-400: the weights are parsed; the run ends with code 1 when the
\* output directory exists without --force or --skip-existing, when no input
\* directory is valid, or when no image is found.
Validate ==
    /\ mpc = "start"
    /\ parsed_weights' = <<ParseMetricWeights(opts.metric_weights, DictOf({}, 0))>>
    /\ IF \/ output_exists /\ ~opts.force
          \/ ~opts.input_dirs_valid
          \/ opts.all_images = {}
       THEN exit_code' = <<1>> /\ mpc' = "returned"
       ELSE exit_code' = exit_code /\ mpc' = "cache"
    /\ UNCHANGED <<opts, output_exists, cache_file, cached_embeddings, embeddings, grouped>>
    /\ UNCHANGED notMain

\* main l.401-416: the output directory is made for the cache file unless the
\* run is dry; load_cache gives the dictionary of the file, {} without a file
\* or without --cache.
LoadCache ==
    /\ mpc = "cache"
    /\ output_exists' = (output_exists \/ (opts.cache /\ ~opts.dryrun))
    /\ cached_embeddings' = IF opts.cache /\ cache_file # <<>> THEN cache_file[1]
                            ELSE DictOf({}, "")
    /\ mpc' = "embed"
    /\ UNCHANGED <<opts, cache_file, parsed_weights, embeddings, grouped, exit_code>>
    /\ UNCHANGED notMain

\* Only the new embeddings are kept.
NewOnly(cached, new) == new

\* {**cached_embeddings, **new_embeddings}
Combined(cached, new) ==
    [p \in DOMAIN cached \cup DOMAIN new |-> IF p \in DOMAIN new THEN new[p] ELSE cached[p]]

\* main l.418-454: the images not in the cache are embedded (an image that
\* cannot be processed is left out), the dictionaries are combined and the
\* cache is saved unless dry; with nothing to embed the cached dictionary is
\* used as it is; a model that does not load ends the run with code 1.
ComputeEmbeddings ==
    /\ mpc = "embed"
    /\ LET images_to_process == opts.all_images \ DOMAIN cached_embeddings
           new_embeddings == DictOf(images_to_process \cap opts.embeddable, "computed")
       IN  IF images_to_process = {}
           THEN /\ embeddings' = cached_embeddings
                /\ mpc' = "group"
                /\ UNCHANGED <<output_exists, cache_file, exit_code>>
           ELSE IF ~opts.model_loads
           THEN /\ exit_code' = <<1>>
                /\ mpc' = "returned"
                /\ UNCHANGED <<output_exists, cache_file, embeddings>>
           ELSE /\ embeddings' = Combined(cached_embeddings, new_embeddings)
                /\ IF opts.cache /\ ~opts.dryrun
                   THEN /\ cache_file' = <<Combined(cached_embeddings, new_embeddings)>>
                        /\ output_exists' = TRUE
                   ELSE UNCHANGED <<output_exists, cache_file>>
                /\ mpc' = "group"
                /\ exit_code' = exit_code
    /\ UNCHANGED <<opts, parsed_weights, cached_embeddings, grouped>>
    /\ UNCHANGED notMain

\* main l.456-495: group_similar_images(embeddings) groups
\* list(embeddings.keys()); without a group main returns 0, else the output
\* structure is built.
GroupImages ==
    /\ mpc = "group"
    /\ grouped' = <<DOMAIN embeddings>>
    /\ IF DOMAIN embeddings = {}
       THEN exit_code' = <<0>> /\ mpc' = "returned"
       ELSE exit_code' = exit_code /\ mpc' = "build"
    /\ UNCHANGED <<opts, output_exists, cache_file, parsed_weights, cached_embeddings,
                   embeddings>>
    /\ UNCHANGED notMain

MainNext == Validate \/ LoadCache \/ ComputeEmbeddings \/ GroupImages

(***************************************************************************)
(* Claims about main up to the grouping                                    *)
(***************************************************************************)
\* One of the three checks main makes before it looks for embeddings fails.
InvalidInput ==
    \/ opts.output_existed /\ ~opts.force
    \/ ~opts.input_dirs_valid
    \/ opts.all_images = {}

\* The dictionary handed to the grouping held no embedding.
NoEmbeddingsAvailable == grouped = <<{}>>

\* C21: a run that ends on a validation error (no valid input directory, an
\* output directory that exists without force or skip-existing, no image, no
\* embedding available) returns a non-zero code and has neither made the
\* output directory nor written the cache file.
C21_ValidationAbortsCleanly ==
    (mpc = "returned" /\ (InvalidInput \/ NoEmbeddingsAvailable)) =>
        /\ exit_code # <<0>>
        /\ output_exists = opts.output_existed
        /\ cache_file = opts.cache_before

\* A pair of the weight specification that is not metric:number.
Malformed(pairs) ==
    \E k \in DOMAIN pairs : Len(pairs[k]) # 2 \/ ~IsFloat(pairs[k][2])

\* C22: a malformed entry in the weight specification stops the run with an
\* error before anything is ranked: the run never goes on to load the cache,
\* embed, group or build the output.
C22_MalformedWeightsStop ==
    (Malformed(opts.metric_weights) /\ mpc # "start") =>
        mpc = "returned" /\ exit_code = <<1>> /\ grouped = <<>>

\* C23: whenever the run has saved the cache, every key loaded at the start of
\* the run is in the saved file with the vector it was loaded with.
C23_CacheAppendOnly ==
    cache_file # opts.cache_before =>
        /\ cache_file # <<>>
        /\ DOMAIN cached_embeddings \subseteq DOMAIN cache_file[1]
        /\ \A p \in DOMAIN cached_embeddings : cache_file[1][p] = cached_embeddings[p]

\* A run that loaded a cache with a path of an earlier run and saved it with a
\* newly computed entry added.
C23_Witness ==
    /\ cache_file # opts.cache_before
    /\ cache_file # <<>>
    /\ StalePath \in DOMAIN cached_embeddings
    /\ StalePath \in DOMAIN cache_file[1]
    /\ \E p \in DOMAIN cache_file[1] : cache_file[1][p] = "computed"

\* C29: the ids handed to grouping are exactly the images found in this run
\* that have an embedding.
C29_GroupsOnlyDiscovered ==
    grouped # <<>> =>
        grouped[1] = {p \in opts.all_images : p \in DOMAIN embeddings}

(***************************************************************************)
(* Specifications                                                          *)
(***************************************************************************)
GroupIdle ==
    /\ image_paths = <<>>
    /\ sim = <<>>
    /\ threshold = 0
    /\ groups = <<>>
    /\ comparisons = <<>>
    /\ gpc = "idle"

\* The components added to the first five, at rest.
OthersIdle == RaceIdle /\ LinkIdle /\ MainIdle

InitGroup == GroupInit /\ PlaceIdle /\ SafeIdle /\ SelectIdle /\ RunIdle /\ OthersIdle

InitPlace == PlaceInit /\ GroupIdle /\ SafeIdle /\ SelectIdle /\ RunIdle /\ OthersIdle

InitSafe == SafeInit /\ GroupIdle /\ PlaceIdle /\ SelectIdle /\ RunIdle /\ OthersIdle

InitSelect == SelectInit /\ GroupIdle /\ PlaceIdle /\ SafeIdle /\ RunIdle /\ OthersIdle

InitRun == RunInit /\ GroupIdle /\ SafeIdle /\ SelectIdle /\ OthersIdle

InitRace ==
    RaceInit /\ GroupIdle /\ SafeIdle /\ SelectIdle /\ RunIdle /\ LinkIdle /\ MainIdle

InitLink ==
    LinkInit /\ GroupIdle /\ PlaceIdle /\ SafeIdle /\ SelectIdle /\ RunIdle /\ RaceIdle
        /\ MainIdle

InitMain ==
    MainInit /\ GroupIdle /\ PlaceIdle /\ SafeIdle /\ SelectIdle /\ RunIdle /\ RaceIdle
        /\ LinkIdle

SpecGroup == InitGroup /\ [][GroupNext]_vars

SpecShuffle == InitGroup /\ [][ShuffleNext]_vars

SpecPlace == InitPlace /\ [][PlaceNext]_vars

SpecSafe == InitSafe /\ [][SafeNext]_vars

SpecSelect == InitSelect /\ [][SelectNext]_vars

SpecRun == InitRun /\ [][RunNext]_vars

SpecRace == InitRace /\ [][RaceNext]_vars

SpecLink == InitLink /\ [][LinkNext]_vars

SpecMain == InitMain /\ [][MainNext]_vars

Spec == SpecGroup

====
